---- MODULE Spec2Model ----
(***************************************************************************)
(* Model of the feishu-bot conversation dispatch and response engine.      *)
(*                                                                         *)
(* The repository holds two implementations of the same engine:            *)
(*   "main"    : app/main.py (the FastAPI app exported by app/__init__.py) *)
(*   "modular" : app/connector.py + app/message_handler.py +               *)
(*               app/event_handler.py + app/database.py                    *)
(* The variable impl selects which one a behaviour follows.                *)
(*                                                                         *)
(* Specifications:                                                         *)
(*   SpecIntake   : webhook intake, deduplication, dispatch                *)
(*   SpecThinking : run_with_thinking, the reply task against the timer    *)
(*   SpecHandler  : the message handler's decision tree and the settings   *)
(*   SpecApi      : the tenant-token cache and send_text_to_chat           *)
(* and smaller specifications of parts of these and of helper functions    *)
(* evaluated on their own (SpecMention, SpecRatio, SpecIntent).            *)
(***************************************************************************)
EXTENDS Integers, Sequences, FiniteSets, TLC

VARIABLES
    impl,               \* "main" or "modular"
    \* ---- intake (main.py feishu_events / connector.py webhook_handler)
    recent_event_ids,   \* deque(maxlen): sequence of event ids
    recent_event_set,   \* set of event ids
    requests,           \* webhook requests still awaiting their handler: seq of [id, pc]
    tasks,              \* background tasks created by asyncio.create_task, per event id
    starts,             \* history: how often the handler was started, per event id
    replies,            \* history: outbound messages produced, per event id
    nDeliv,             \* history: number of deliveries so far
    lastResp,           \* history: the latest webhook response
    \* ---- run_with_thinking (main.py:371 / message_handler.py:202)
    enable_thinking,    \* the enable_thinking argument of the current run
    mainPc,             \* where the awaited main coroutine (answer_when_mentioned) is
    thinkPc,            \* where the thinking() task is
    done_set,           \* the asyncio.Event done
    delayElapsed,       \* the delay of wait_for has run out
    outbox,             \* messages delivered to the chat by the current run, in order
    nRuns,              \* history: number of runs started
    \* ---- message handler (main.py handle_message_event / message_handler.py handle_message)
    dbConfigured,       \* DATABASE_URL is set
    settingsRow,        \* table settings: chat -> NoRow or [mode, threshold]
    conversation_active_until, \* chat -> time (0: no entry)
    now,                \* time.time(), in ticks
    chat_logs,          \* chat -> deque(maxlen) of stored messages, oldest first
    appended,           \* history: the latest appends to chat_logs, per chat, oldest first
    lastWrite,          \* history: the latest value handed to update_settings_*, per chat and field
    last,               \* history: the latest handled message and what handling it did
    \* ---- helper functions evaluated on their own
    input,              \* the argument of the function under evaluation
    output,             \* <<>> before the call, <<result>> after it
    \* ---- platform client (feishu_api.py)
    TENANT_TOKEN_CACHE, \* [token, expire_at]; token 0 is the empty string
    callers,            \* tasks inside send_text_to_chat: task -> [pc, now0, cached, remaining, logged]
    \* ---- handler tasks that run at the same time
    writers,            \* tasks inside update_settings_*: field -> [pc, acked, dropped]
    workers,            \* tasks inside the handler's persist step: task -> [pc, chat, mid, reset]
    drawer              \* the task inside handle_draw_request: [pc, box, n, textFailed, chat, reference]

intakeVars == <<recent_event_ids, recent_event_set, requests, tasks, starts,
                replies, nDeliv, lastResp>>

thinkVars == <<enable_thinking, mainPc, thinkPc, done_set, delayElapsed, outbox, nRuns>>

handlerVars == <<dbConfigured, settingsRow, conversation_active_until, now,
                 chat_logs, appended, lastWrite, last>>

fnVars == <<input, output>>

apiVars == <<TENANT_TOKEN_CACHE, callers>>

taskVars == <<writers, workers, drawer>>

vars == <<impl, intakeVars, thinkVars, handlerVars, fnVars, apiVars, taskVars>>

Impls == {"main", "modular"}

(***************************************************************************)
(* Bounds                                                                  *)
(***************************************************************************)
\* deque(maxlen=5000) of main.py:97 / connector.py:52, scaled down
DedupMaxlen == 1
MaxDeliveries == 3
MaxInflight == 1

(***************************************************************************)
(* Webhook bodies                                                          *)
(***************************************************************************)
EventIds == {"", "e1", "e2", "e3"}

MSG_EVENT == "im.message.receive_v1"
URL_VERIFICATION == "url_verification"

\* event types, with what the string tests of the router see in them
EventTypes == {MSG_EVENT, "im.chat.member.user.added_v1",
               "im.chat.member.user.deleted_v1", "contact.user_added_v1",
               URL_VERIFICATION}

StartsWithChatMember(t) ==
    t \in {"im.chat.member.user.added_v1", "im.chat.member.user.deleted_v1"}
ContainsAdd(t) == t \in {"im.chat.member.user.added_v1", "contact.user_added_v1"}
ContainsUserAdded(t) == t \in {"contact.user_added_v1"}

\* shape "header": {header: {event_type, event_id, token}, event}
\* shape "flat"  : {type, event_id, event, token, challenge?}
\* tok: where the configured verification token appears ("hdr", "top", "none")
\* challenge: "absent", "empty" (the empty string) or "abc"
\* hasMember: the event carries a chat id and at least one member
Bodies ==
    { b \in [shape : {"header", "flat"}, etype : EventTypes,
             challenge : {"absent", "empty", "abc"}, tok : {"hdr", "top", "none"},
             event_id : EventIds, hasMember : BOOLEAN] :
        /\ (b.etype = URL_VERIFICATION) => (b.shape = "flat")
        /\ (b.challenge # "absent") => (b.etype = URL_VERIFICATION)
        /\ (b.tok = "hdr") => (b.shape = "header")
        /\ b.hasMember => ContainsAdd(b.etype) }

\* body.get("type"): only the flat shape carries a top-level type
BodyType(b) == IF b.shape = "flat" THEN b.etype ELSE "none"

verify_url_challenge(b) ==
    IF BodyType(b) = URL_VERIFICATION /\ b.challenge # "absent"
    THEN b.challenge ELSE "None"

\* Python truthiness of the returned challenge: None and "" are falsy
Truthy(ch) == ch \notin {"None", "empty"}

\* mutant: every token is accepted
verify_token_any(b) == TRUE

verify_token(b) == (b.tok = "hdr") \/ (b.tok = "top")

parse_event(b) == b.etype

\* body.get("header", {}).get("event_id") or body.get("event_id") or ""
EventIdOf(b) == b.event_id

(***************************************************************************)
(* Deduplication                                                           *)
(***************************************************************************)
SeqRange(s) == { s[i] : i \in 1..Len(s) }

\* deque(maxlen=n).append(x): a full deque drops its oldest entry
DequeAppend(s, x, n) ==
    IF Len(s) >= n THEN Tail(s) \o <<x>> ELSE Append(s, x)

\* mutant: the id is never recorded in the membership set
is_event_processed_noadd(ids, set, event_id) ==
    IF event_id = "" THEN [dup |-> FALSE, ids |-> ids, set |-> set]
    ELSE IF event_id \in set THEN [dup |-> TRUE, ids |-> ids, set |-> set]
    ELSE [dup |-> FALSE, ids |-> DequeAppend(ids, event_id, DedupMaxlen), set |-> set]

\* mutant: the empty id is recorded like any other
is_event_processed_emptyid(ids, set, event_id) ==
    IF event_id \in set THEN [dup |-> TRUE, ids |-> ids, set |-> set]
    ELSE LET ids2 == DequeAppend(ids, event_id, DedupMaxlen)
         IN  [dup |-> FALSE, ids |-> ids2,
              set |-> IF Len(ids2) >= DedupMaxlen THEN SeqRange(ids2)
                      ELSE set \cup {event_id}]

\* mutant: the membership set is never rebuilt from the FIFO
is_event_processed_norebuild(ids, set, event_id) ==
    IF event_id = "" THEN [dup |-> FALSE, ids |-> ids, set |-> set]
    ELSE IF event_id \in set THEN [dup |-> TRUE, ids |-> ids, set |-> set]
    ELSE [dup |-> FALSE, ids |-> DequeAppend(ids, event_id, DedupMaxlen),
          set |-> set \cup {event_id}]

\* returns the answer (dup) and the new FIFO and membership set
is_event_processed(ids, set, event_id) ==
    IF event_id = "" THEN [dup |-> FALSE, ids |-> ids, set |-> set]
    ELSE IF event_id \in set THEN [dup |-> TRUE, ids |-> ids, set |-> set]
    ELSE LET ids2 == DequeAppend(ids, event_id, DedupMaxlen)
             set2 == set \cup {event_id}
         IN  [dup |-> FALSE, ids |-> ids2,
              set |-> IF Len(ids2) >= DedupMaxlen THEN SeqRange(ids2) ELSE set2]

(***************************************************************************)
(* Routing                                                                 *)
(***************************************************************************)
\* main.py:712      A and B or C      (Python precedence: (A and B) or C)
\* connector.py:127 A and (B or C)
IsMemberAdd(i, t) ==
    IF i = "main"
    THEN (StartsWithChatMember(t) /\ ContainsAdd(t)) \/ ContainsUserAdded(t)
    ELSE StartsWithChatMember(t) /\ (ContainsAdd(t) \/ ContainsUserAdded(t))

\* main.py raises HTTPException(403); connector.py raises a bare Exception
UnauthorizedResp(i) == IF i = "main" THEN "403" ELSE "exception"

Resp(id, resp, dup, dispatched, authorized) ==
    [resp |-> resp, dup |-> dup, dispatched |-> dispatched,
     authorized |-> authorized, echo |-> "none"]

NoResp == Resp("", "none", FALSE, FALSE, FALSE)

Bump(f, k) == [f EXCEPT ![k] = @ + 1]

RemoveAt(s, i) == SubSeq(s, 1, i - 1) \o SubSeq(s, i + 1, Len(s))

\* main.py:707 asyncio.create_task(handle_message_event(...));
\* connector.py:123 await handle_message_fn(...)
MessageIsBackground(i) == i = "main"

\* One webhook delivery, up to its response or its first await on a handler.
feishu_events(b) ==
    /\ nDeliv < MaxDeliveries
    /\ Len(requests) < MaxInflight
    /\ nDeliv' = nDeliv + 1
    /\ UNCHANGED <<impl, taskVars, fnVars, apiVars, replies, thinkVars, handlerVars>>
    /\ IF Truthy(verify_url_challenge(b))
       THEN /\ lastResp' = [Resp(EventIdOf(b), "challenge", FALSE, FALSE, FALSE)
                               EXCEPT !.echo = verify_url_challenge(b)]
            /\ UNCHANGED <<recent_event_ids, recent_event_set, requests, tasks, starts>>
       ELSE IF ~verify_token(b)
       THEN /\ lastResp' = Resp(EventIdOf(b), UnauthorizedResp(impl), FALSE, FALSE, FALSE)
            /\ UNCHANGED <<recent_event_ids, recent_event_set, requests, tasks, starts>>
       ELSE LET et == parse_event(b)
                id == EventIdOf(b)
                r  == is_event_processed(recent_event_ids, recent_event_set, id)
            IN  /\ recent_event_ids' = r.ids
                /\ recent_event_set' = r.set
                /\ IF r.dup
                   THEN /\ lastResp' = Resp(id, "code0", TRUE, FALSE, TRUE)
                        /\ UNCHANGED <<requests, tasks, starts>>
                   ELSE IF et = MSG_EVENT
                   THEN /\ starts' = Bump(starts, id)
                        /\ IF MessageIsBackground(impl)
                           THEN /\ tasks' = Bump(tasks, id)
                                /\ lastResp' = Resp(id, "code0", FALSE, TRUE, TRUE)
                                /\ UNCHANGED requests
                           ELSE /\ requests' = Append(requests, [id |-> id, pc |-> "handle_message"])
                                /\ UNCHANGED <<tasks, lastResp>>
                   ELSE IF IsMemberAdd(impl, et) /\ b.hasMember
                   THEN /\ requests' = Append(requests, [id |-> id, pc |-> "welcome_llm"])
                        /\ UNCHANGED <<tasks, starts, lastResp>>
                   ELSE /\ lastResp' = Resp(id, "code0", FALSE, FALSE, TRUE)
                        /\ UNCHANGED <<requests, tasks, starts>>

Deliver == \E b \in Bodies : feishu_events(b)

\* Outcomes of one handled message, as the intake path sees them:
\* a reply was sent, nothing was sent, or a collaborator raised.
HandlerOutcomes == {"replied", "silent", "raised"}

\* A background task (main.py) runs handle_message_event to its end; its
\* try/except Exception (main.py:444, 679) swallows whatever is raised.
handle_message_event_task(id, out) ==
    /\ impl = "main"
    /\ tasks[id] > 0
    /\ tasks' = [tasks EXCEPT ![id] = @ - 1]
    /\ replies' = IF out = "replied" THEN Bump(replies, id) ELSE replies
    /\ UNCHANGED <<impl, taskVars, fnVars, apiVars, recent_event_ids, recent_event_set, requests, starts,
                   nDeliv, lastResp, thinkVars, handlerVars>>

RunTask == \E id \in EventIds, out \in HandlerOutcomes :
               handle_message_event_task(id, out)

\* connector.py:123 awaits handle_message; message_handler.py:339, 527 swallow
\* whatever is raised, then the webhook answers.
handle_message_inline(i, out) ==
    /\ i \in 1..Len(requests)
    /\ requests[i].pc = "handle_message"
    /\ requests' = RemoveAt(requests, i)
    /\ replies' = IF out = "replied" THEN Bump(replies, requests[i].id) ELSE replies
    /\ lastResp' = Resp(requests[i].id, "code0", FALSE, TRUE, TRUE)
    /\ UNCHANGED <<impl, taskVars, fnVars, apiVars, recent_event_ids, recent_event_set, tasks, starts, nDeliv,
                   thinkVars, handlerVars>>

RunInline == \E i \in 1..Len(requests), out \in HandlerOutcomes :
                 handle_message_inline(i, out)

\* main.py welcome_new_user has no try/except; event_handler.py:76, 94 has one
WelcomeCatches(i) == i = "modular"

\* what the webhook answers when the welcome raised
WelcomeFailureResp(i) == IF WelcomeCatches(i) THEN "code0" ELSE "500"

\* welcome_new_user up to and including call_llm (awaited by intake).
\* get_recent_messages never raises; call_llm raises on a transport error.
welcome_llm(i, ok) ==
    /\ i \in 1..Len(requests)
    /\ requests[i].pc = "welcome_llm"
    /\ IF ok
       THEN /\ requests' = [requests EXCEPT ![i].pc = "welcome_send"]
            /\ UNCHANGED lastResp
       ELSE /\ requests' = RemoveAt(requests, i)
            /\ lastResp' = Resp(requests[i].id, WelcomeFailureResp(impl), FALSE, TRUE, TRUE)
    /\ UNCHANGED <<impl, taskVars, fnVars, apiVars, recent_event_ids, recent_event_set, tasks, starts,
                   replies, nDeliv, thinkVars, handlerVars>>

WelcomeLLM == \E i \in 1..Len(requests), ok \in BOOLEAN : welcome_llm(i, ok)

\* welcome_new_user: send_text_to_chat, then the webhook answers.
welcome_send(i, ok) ==
    /\ i \in 1..Len(requests)
    /\ requests[i].pc = "welcome_send"
    /\ requests' = RemoveAt(requests, i)
    /\ replies' = IF ok THEN Bump(replies, requests[i].id) ELSE replies
    /\ lastResp' = Resp(requests[i].id, IF ok THEN "code0" ELSE WelcomeFailureResp(impl),
                        FALSE, TRUE, TRUE)
    /\ UNCHANGED <<impl, taskVars, fnVars, apiVars, recent_event_ids, recent_event_set, tasks, starts, nDeliv,
                   thinkVars, handlerVars>>

WelcomeSend == \E i \in 1..Len(requests), ok \in BOOLEAN : welcome_send(i, ok)

\* no helper function is under evaluation
FnIdle == input = "none" /\ output = <<>>

MaxCallers == 2
Callers == 1..MaxCallers

NoCall == [pc |-> "idle", now0 |-> 0, cached |-> FALSE, remaining |-> 0, logged |-> FALSE]

\* TENANT_TOKEN_CACHE = {"token": "", "expire_at": 0.0}, and no call under way
ApiIdle ==
    /\ TENANT_TOKEN_CACHE = [token |-> 0, expire_at |-> 0]
    /\ callers = [t \in Callers |-> NoCall]

\* no handler task is inside a settings update, the persist step or the draw
\* pipeline
SettingFields == {"threshold", "mode"}
MaxWorkers == 2
WorkerIds == 1..MaxWorkers

NoWrite == [pc |-> "idle", acked |-> FALSE, dropped |-> FALSE]
NoWork == [pc |-> "idle", chat |-> "c1", mid |-> "m0", reset |-> FALSE, sent |-> FALSE]
NoDraw == [pc |-> "idle", box |-> <<>>, n |-> 0, textFailed |-> FALSE,
           chat |-> "c1", reference |-> "none"]

TaskIdle ==
    /\ writers = [f \in SettingFields |-> NoWrite]
    /\ workers = [w \in WorkerIds |-> NoWork]
    /\ drawer = NoDraw

\* the handler's state before any message
Chats == {"c1", "c2"}

\* the chat of the single-chat specifications
OneChat == {"c1"}

NoRow == [mode |-> "none", threshold |-> [nan |-> FALSE, v |-> -1]]

QuietEnv == [db |-> "ok", send |-> "ok", llm |-> "ok", intent |-> "chat",
             draw |-> "ok", think |-> "none"]

NoParse == [err |-> FALSE, f |-> [nan |-> FALSE, v |-> -1]]

NoLast ==
    [chat |-> "c1", slash |-> FALSE, mentioned |-> FALSE, sticky |-> FALSE,
     parsed |-> NoParse, clean |-> TRUE, dbUp |-> FALSE, intent |-> "chat",
     marked |-> FALSE, llm |-> "ok", sendOk |-> TRUE, zip |-> FALSE, score |-> 0,
     sender_type |-> "user", self |-> FALSE, chat_type |-> "group", mentions |-> "none",
     branch |-> "init",
     preMode |-> "none", sent |-> <<>>, failed |-> FALSE, escaped |-> FALSE,
     logged |-> FALSE, asked |-> {},
     modeRead |-> "none", thrRead |-> [nan |-> FALSE, v |-> -1]]

HandlerIdle ==
    /\ dbConfigured = FALSE
    /\ settingsRow = [c \in Chats |-> NoRow]
    /\ conversation_active_until = [c \in Chats |-> 0]
    /\ now = 1
    /\ chat_logs = [c \in Chats |-> <<>>]
    /\ appended = [c \in Chats |-> <<>>]
    /\ lastWrite = [c \in Chats |-> [mode |-> "none", threshold |-> [nan |-> FALSE, v |-> -1]]]
    /\ last = NoLast

IntakeIdle ==
    /\ recent_event_ids = <<>>
    /\ recent_event_set = {}
    /\ requests = <<>>
    /\ tasks = [e \in EventIds |-> 0]
    /\ starts = [e \in EventIds |-> 0]
    /\ replies = [e \in EventIds |-> 0]
    /\ nDeliv = 0
    /\ lastResp = NoResp

ThinkIdle ==
    /\ enable_thinking = FALSE
    /\ mainPc = "idle"
    /\ thinkPc = "none"
    /\ done_set = FALSE
    /\ delayElapsed = FALSE
    /\ outbox = <<>>
    /\ nRuns = 0

InitIntake ==
    /\ impl \in Impls
    /\ FnIdle
    /\ ApiIdle
    /\ TaskIdle
    /\ ThinkIdle
    /\ HandlerIdle
    /\ recent_event_ids = <<>>
    /\ recent_event_set = {}
    /\ requests = <<>>
    /\ tasks = [e \in EventIds |-> 0]
    /\ starts = [e \in EventIds |-> 0]
    /\ replies = [e \in EventIds |-> 0]
    /\ nDeliv = 0
    /\ lastResp = NoResp

NextIntake == Deliver \/ RunTask \/ RunInline \/ WelcomeLLM \/ WelcomeSend

SpecIntake == InitIntake /\ [][NextIntake]_vars

\* the token and challenge gates: every envelope shape, token place, challenge
\* and event type, with one event id besides the missing one
GateBodies == { b \in Bodies : b.event_id \in {"", "e1"} }

DeliverGate == \E b \in GateBodies : feishu_events(b)

NextGate == DeliverGate \/ RunTask \/ RunInline \/ WelcomeLLM \/ WelcomeSend

SpecGate == InitIntake /\ [][NextGate]_vars

(***************************************************************************)
(* run_with_thinking: the awaited main coroutine against the timer task    *)
(***************************************************************************)
MaxRuns == 2

THINKING == "thinking"
REPLY == "reply"

\* finally: done.set(); thinking_task.cancel().  A task cancelled while it
\* waits, or while its send is in flight, ends with CancelledError (which
\* "except Exception" does not catch); a finished task is left as it is.
CancelThinking(pc) ==
    IF pc \in {"waiting", "sending", "sent"} THEN "cancelled" ELSE pc

\* run_with_thinking up to its first suspension: the Event and the task are
\* created and the main coroutine runs up to its first await (web enrichment).
rwt_start(en) ==
    /\ mainPc = "idle"
    /\ nRuns < MaxRuns
    /\ nRuns' = nRuns + 1
    /\ enable_thinking' = en
    /\ mainPc' = "web"
    /\ thinkPc' = "waiting"
    /\ done_set' = FALSE
    /\ delayElapsed' = FALSE
    /\ outbox' = <<>>
    /\ UNCHANGED <<impl, taskVars, fnVars, apiVars, intakeVars, handlerVars>>

RwtStart == \E en \in BOOLEAN : rwt_start(en)

\* the finally block of run_with_thinking, entered with the main coroutine
\* finished (pc "done") or raised (pc "raised")
rwt_finally(pc) ==
    /\ mainPc' = pc
    /\ done_set' = TRUE
    /\ thinkPc' = CancelThinking(thinkPc)

\* answer_when_mentioned: URL fetches, should_use_web_search and the search
\* (awaits); none of them sends to the chat.  A transport error raises.
main_web(ok) ==
    /\ mainPc = "web"
    /\ IF ok THEN /\ mainPc' = "llm"
                  /\ UNCHANGED <<thinkPc, done_set>>
             ELSE rwt_finally("raised")
    /\ UNCHANGED <<impl, taskVars, fnVars, apiVars, intakeVars, handlerVars, enable_thinking, delayElapsed, outbox, nRuns>>

MainWeb == \E ok \in BOOLEAN : main_web(ok)

\* answer_when_mentioned: await call_llm / call_llm_with_images
main_llm(ok) ==
    /\ mainPc = "llm"
    /\ IF ok THEN /\ mainPc' = "send_reply"
                  /\ UNCHANGED <<thinkPc, done_set>>
             ELSE rwt_finally("raised")
    /\ UNCHANGED <<impl, taskVars, fnVars, apiVars, intakeVars, handlerVars, enable_thinking, delayElapsed, outbox, nRuns>>

MainLLM == \E ok \in BOOLEAN : main_llm(ok)

\* answer_when_mentioned: await send_text_to_chat(chat_id, reply); the
\* platform delivers the reply while the coroutine still awaits the response
main_reply_delivered ==
    /\ mainPc = "send_reply"
    /\ mainPc' = "reply_sent"
    /\ outbox' = Append(outbox, REPLY)
    /\ UNCHANGED <<impl, taskVars, fnVars, apiVars, intakeVars, handlerVars, enable_thinking, thinkPc, done_set,
                   delayElapsed, nRuns>>

\* the send of the reply fails (token fetch or transport error): it raises
main_reply_failed ==
    /\ mainPc = "send_reply"
    /\ rwt_finally("raised")
    /\ UNCHANGED <<impl, taskVars, fnVars, apiVars, intakeVars, handlerVars, enable_thinking, delayElapsed, outbox, nRuns>>

\* the response of the send arrives: mark_conversation_active, return, finally
main_return ==
    /\ mainPc = "reply_sent"
    /\ rwt_finally("done")
    /\ UNCHANGED <<impl, taskVars, fnVars, apiVars, intakeVars, handlerVars, enable_thinking, delayElapsed, outbox, nRuns>>

\* time passes: the delay given to asyncio.wait_for has run out
timer_expires ==
    /\ mainPc \notin {"idle"}
    /\ ~delayElapsed
    /\ delayElapsed' = TRUE
    /\ UNCHANGED <<impl, taskVars, fnVars, apiVars, intakeVars, handlerVars, enable_thinking, mainPc, thinkPc, done_set,
                   outbox, nRuns>>

\* mutant: the indicator is sent for text-only messages too
ThinkingSends_always(en) == TRUE

\* thinking(): if enable_thinking: await send_text_to_chat(...)
ThinkingSends(en) == en

\* thinking(): wait_for(done.wait(), timeout=delay) raises TimeoutError
think_timeout ==
    /\ thinkPc = "waiting"
    /\ delayElapsed
    /\ ~done_set
    /\ thinkPc' = IF ThinkingSends(enable_thinking) THEN "sending" ELSE "finished"
    /\ UNCHANGED <<impl, taskVars, fnVars, apiVars, intakeVars, handlerVars, enable_thinking, mainPc, done_set,
                   delayElapsed, outbox, nRuns>>

\* the platform delivers the thinking message
think_delivered ==
    /\ thinkPc = "sending"
    /\ thinkPc' = "sent"
    /\ outbox' = Append(outbox, THINKING)
    /\ UNCHANGED <<impl, taskVars, fnVars, apiVars, intakeVars, handlerVars, enable_thinking, mainPc, done_set,
                   delayElapsed, nRuns>>

\* the send of the thinking message returns, or fails and raises in the task
think_return ==
    /\ thinkPc \in {"sending", "sent"}
    /\ thinkPc' = "finished"
    /\ UNCHANGED <<impl, taskVars, fnVars, apiVars, intakeVars, handlerVars, enable_thinking, mainPc, done_set,
                   delayElapsed, outbox, nRuns>>

\* run_with_thinking has returned (or raised to the handler): the handler ends
rwt_end ==
    /\ mainPc \in {"done", "raised"}
    /\ mainPc' = "idle"
    /\ UNCHANGED <<impl, taskVars, fnVars, apiVars, intakeVars, handlerVars, enable_thinking, thinkPc, done_set,
                   delayElapsed, outbox, nRuns>>

InitThinking ==
    /\ impl \in Impls
    /\ FnIdle
    /\ ApiIdle
    /\ TaskIdle
    /\ IntakeIdle
    /\ ThinkIdle
    /\ HandlerIdle

NextThinking ==
    \/ RwtStart \/ MainWeb \/ MainLLM \/ main_reply_delivered \/ main_reply_failed
    \/ main_return \/ timer_expires \/ think_timeout \/ think_delivered
    \/ think_return \/ rwt_end

SpecThinking == InitThinking /\ [][NextThinking]_vars

(***************************************************************************)
(* The message handler: handle_message_event (main.py) and handle_message  *)
(* (message_handler.py) with the command handlers of event_handler.py and  *)
(* the settings functions of db.py / database.py.  One action handles one  *)
(* message from its first line to its return.  An exception propagating    *)
(* through the handler is the flag `failed` of the run record: every later *)
(* step is skipped until an except clause clears it.                       *)
(***************************************************************************)
ConvTTL == 1           \* CONVERSATION_TTL_SECONDS, in ticks
LogsMaxlen == 2        \* deque(maxlen=2000) of main.py:91 / message_handler.py:58, scaled down
MaxTime == 3           \* the clock stops here

ENGAGE_DEFAULT == 65   \* 0.65; thresholds and scores are in hundredths
SCORE_STEP == 20       \* 0.2 per keyword hit
SCORE_CAP == 100       \* min(score, 1.0)

Modes == {"quiet", "normal", "active"}

\* A text is the sequence of its whitespace-separated words (text.split()).
T_hello == <<"hello">>
T_question == <<"zenmeban?">>
T_full == <<"zenmeban?", "weishenme">>
T_zip == <<"bieshuohua">>
T_empty == <<>>
T_atbot == <<"@bot", "hello">>

SlashWords == {"/help", "/HELP", "/summary", "/settings", "/optout", "/reset", "/foo"}

Lower(w) ==
    CASE w = "/HELP" -> "/help"
      [] w = "QUIET" -> "quiet"
      [] w = "Threshold" -> "threshold"
      [] OTHER -> w

\* text.startswith("/")
StartsWithSlash(t) == Len(t) > 0 /\ t[1] \in SlashWords

\* A float is a number of hundredths or NaN.
Num(v) == [nan |-> FALSE, v |-> v]
NaN == [nan |-> TRUE, v |-> 0]

\* float(val): err when float() raises ValueError
ParseFloat(w) ==
    CASE w = "0" -> [err |-> FALSE, f |-> Num(0)]
      [] w = "0.3" -> [err |-> FALSE, f |-> Num(30)]
      [] w = "0.65" -> [err |-> FALSE, f |-> Num(65)]
      [] w = "1" -> [err |-> FALSE, f |-> Num(100)]
      [] w = "7" -> [err |-> FALSE, f |-> Num(700)]
      [] w = "-2" -> [err |-> FALSE, f |-> Num(0 - 200)]
      [] w = "nan" -> [err |-> FALSE, f |-> NaN]
      [] OTHER -> [err |-> TRUE, f |-> NaN]

\* Python's comparisons and two-argument min and max: the first argument is kept
\* unless the second compares strictly smaller (larger); every comparison with
\* NaN is False.
PyLess(a, b) == ~a.nan /\ ~b.nan /\ a.v < b.v
PyGe(a, b) == ~a.nan /\ ~b.nan /\ a.v >= b.v
PyMin(a, b) == IF PyLess(b, a) THEN b ELSE a
PyMax(a, b) == IF PyLess(a, b) THEN b ELSE a

ClampThreshold_unclamped(t) == t
\* max(0.0, min(1.0, t))
ClampThreshold(t) == PyMax(Num(0), PyMin(Num(100), t))

\* number of entries of the keyword list found in the text ("zenmeban?" stands
\* for the text of three keyword hits, one of them the question mark,
\* "weishenme" for one more keyword), and whether a question mark occurs in
\* it; "bieshuohua" is a zip keyword
KeywordHits(t) ==
    (IF \E i \in 1..Len(t) : t[i] = "zenmeban?" THEN 3 ELSE 0)
    + (IF \E i \in 1..Len(t) : t[i] = "weishenme" THEN 1 ELSE 0)
HasQuestionMark(t) == \E i \in 1..Len(t) : t[i] = "zenmeban?"

basic_engage_score(t) ==
    LET score == SCORE_STEP * KeywordHits(t) + (IF HasQuestionMark(t) THEN SCORE_STEP ELSE 0)
    IN  IF score < SCORE_CAP THEN score ELSE SCORE_CAP

should_zip_reply(t) == \E i \in 1..Len(t) : t[i] = "bieshuohua"

\* the third test of mentioned_bot: "@" + BOT_NAME occurs in the text
TextNamesBot(t) == \E i \in 1..Len(t) : t[i] = "@bot"

\* message.mentions: "none" (empty), "bot" (an entry is the bot), "other"
MentionKinds == {"none", "bot", "other"}

mentioned_bot(e) == e.mentions = "bot" \/ TextNamesBot(e.text)

\* mutant: a mention of somebody else is not looked at
mentions_someone_else_never(e) == FALSE

mentions_someone_else(e) ==
    IF e.mentions = "none" THEN FALSE ELSE ~mentioned_bot(e)

\* mutant: the window is over at active_until itself
is_conversation_active_strict(c) == now < conversation_active_until[c]

is_conversation_active(c) == now <= conversation_active_until[c]

\* what one handling meets outside the process; a send that fails is offered
\* only together with collaborators that answer before it
\*   db:    the database answers ("ok") or every statement raises ("fail")
\*   send:  no send raises ("ok"), the first one does ("first"), all do ("all");
\*          "first" is offered only where a handling can send twice
\*   llm:   call_llm returns the model's text ("ok"), returns one of its
\*          LLM_ERROR_* strings ("error_text": unparsable body, status >= 300,
\*          unexpected format), or raises ("raise": timeout, transport error)
\*   intent: classify_intent's task_type
\*   draw:  generate_image / upload_image / send_image_to_chat outcome
\*   think: the thinking message is not sent, sent before the reply, or after it
DbOutcomes == IF dbConfigured THEN {"ok", "fail"} ELSE {"ok"}
SendOutcomes == {"ok", "first", "all"}
LlmOutcomes == {"ok", "error_text", "raise"}
DrawOutcomes == {"ok", "gen_error", "upload_error", "send_error"}

DbUp(env) == dbConfigured /\ env.db = "ok"

\* the run record of one handling
RunStart ==
    [sent |-> <<>>, failed |-> FALSE, nsend |-> 0, rows |-> settingsRow,
     active |-> conversation_active_until, lw |-> lastWrite,
     logs |-> chat_logs, app |-> appended,
     modeRead |-> "none", thrRead |-> [nan |-> FALSE, v |-> -1], asked |-> {}]

SendFails(rs, env) == env.send = "all" \/ (env.send = "first" /\ rs.nsend = 0)

send_text_to_chat(rs, env, kind) ==
    IF rs.failed THEN rs
    ELSE IF SendFails(rs, env) THEN [rs EXCEPT !.failed = TRUE, !.nsend = @ + 1]
    ELSE [rs EXCEPT !.sent = Append(@, kind), !.nsend = @ + 1]

call_llm(rs, env, what) ==
    IF rs.failed THEN rs
    ELSE IF env.llm = "raise" THEN [rs EXCEPT !.failed = TRUE, !.asked = @ \cup {what}]
    ELSE [rs EXCEPT !.asked = @ \cup {what}]

\* what is sent when the caller sends what call_llm returned
ReplyKind(env, kind) == IF env.llm = "error_text" THEN "llm_error" ELSE kind

update_settings_threshold(rs, env, c, v) ==
    IF rs.failed THEN rs
    ELSE [rs EXCEPT !.lw[c].threshold = v,
                    !.rows[c] = IF ~DbUp(env) THEN @
                                ELSE IF @ = NoRow THEN [mode |-> "normal", threshold |-> v]
                                ELSE [@ EXCEPT !.threshold = v]]

update_settings_mode(rs, env, c, m) ==
    IF rs.failed THEN rs
    ELSE [rs EXCEPT !.lw[c].mode = m,
                    !.rows[c] = IF ~DbUp(env) THEN @
                                ELSE IF @ = NoRow THEN [mode |-> m, threshold |-> Num(ENGAGE_DEFAULT)]
                                ELSE [@ EXCEPT !.mode = m]]

\* get_or_create_settings: the record returned, and the rows afterwards
SettingsRead(rows, env, c) ==
    IF ~DbUp(env) \/ rows[c] = NoRow
    THEN [mode |-> "normal", threshold |-> Num(ENGAGE_DEFAULT)]
    ELSE rows[c]

get_or_create_settings(rs, env, c) ==
    IF rs.failed THEN rs
    ELSE LET r == SettingsRead(rs.rows, env, c)
         IN  [rs EXCEPT !.modeRead = r.mode, !.thrRead = r.threshold,
                        !.rows[c] = IF DbUp(env) /\ @ = NoRow THEN r ELSE @]

mark_conversation_active(rs, c) ==
    IF rs.failed THEN rs ELSE [rs EXCEPT !.active[c] = now + ConvTTL]

forget_conversation(rs, c) ==
    IF rs.failed THEN rs ELSE [rs EXCEPT !.active[c] = 0]

\* the history keeps one append more than the deque can hold
KeepLatest(s, n) == IF Len(s) > n THEN SubSeq(s, Len(s) - n + 1, Len(s)) ELSE s

\* save_message_db (which catches its database errors), then
\* chat_logs[chat_id].append({"ts", "user_id", "text"}); e.mid stands for the
\* stored record
store_message(rs, e) ==
    [rs EXCEPT !.logs[e.chat] = DequeAppend(@, e.mid, LogsMaxlen),
               !.app[e.chat] = KeepLatest(Append(@, e.mid), LogsMaxlen + 1)]

\* /reset of main.py: chat_logs[chat_id].clear(); event_handler.py leaves
\* chat_logs alone
ResetClearsLogs(i) == i = "main"

clear_chat_logs(i, rs, c) ==
    IF rs.failed \/ ~ResetClearsLogs(i) THEN rs ELSE [rs EXCEPT !.logs[c] = <<>>]

\* ---- the events handled ---------------------------------------------------
\* self: BOT_USER_ID is configured and the extracted user_id equals it
\* messages a sender gate can stop: an app's, one without sender type, the bot's own
GatedEvents ==
    { [chat |-> c, chat_type |-> "group", sender_type |-> st, self |-> sf,
       text |-> T_hello, mentions |-> "none", images |-> 0, mid |-> "m1"] :
        c \in OneChat, st \in {"user", "app", ""}, sf \in BOOLEAN }

\* the two early returns before anything is stored
Gate(i, e) ==
    IF e.sender_type # "" /\ e.sender_type # "user" THEN "not_user"
    ELSE IF i = "main" /\ e.self THEN "self"
    ELSE IF e.text = <<>> /\ e.images = 0 THEN "empty"
    ELSE "pass"

CommandOf(t) == Lower(t[1])
ArgsOf(t) == Tail(t)

KnownCommands == {"/help", "/summary", "/optout", "/reset"}

\* the command block returns: main.py returns only from the commands it knows,
\* message_handler.py returns for every text parse_command accepts
TakesCommandBranch(i, t) ==
    /\ StartsWithSlash(t)
    /\ \/ i = "modular"
       \/ CommandOf(t) \in KnownCommands
       \/ CommandOf(t) = "/settings" /\ Len(ArgsOf(t)) >= 2

in_sticky_conversation(e) ==
    /\ e.chat_type = "group"
    /\ is_conversation_active(e.chat)
    /\ ~mentions_someone_else(e)

Branch(i, e) ==
    IF Gate(i, e) # "pass" THEN "none"
    ELSE IF TakesCommandBranch(i, e.text) THEN "command"
    ELSE IF mentioned_bot(e) THEN "mention"
    ELSE IF in_sticky_conversation(e) THEN "sticky"
    ELSE "proactive"

\* ---- commands ---------------------------------------------------------------
\* get_recent_messages (with main.py's fall-back to chat_logs, which holds at
\* least the message being handled) returned something
HasRecentMessages(i, env) == i = "main" \/ DbUp(env)

summarize_chat(i, rs, env, c) ==
    LET r == IF ~HasRecentMessages(i, env)
             THEN send_text_to_chat(rs, env, "no_messages")
             ELSE send_text_to_chat(call_llm(rs, env, "summary"), env,
                                    ReplyKind(env, "summary"))
    IN  IF i = "modular" THEN [r EXCEPT !.failed = FALSE] ELSE r

\* the except clause of the threshold branch: bare in main.py, ValueError in
\* event_handler.py
CatchesAll(i) == i = "main"

settings_threshold(i, rs, env, c, val) ==
    LET p == ParseFloat(val) IN
    IF p.err THEN send_text_to_chat(rs, env, "threshold_error")
    ELSE LET t == ClampThreshold(p.f)
             r == send_text_to_chat(update_settings_threshold(rs, env, c, t),
                                    env, "threshold_set")
         IN  IF r.failed /\ CatchesAll(i)
             THEN send_text_to_chat([r EXCEPT !.failed = FALSE], env, "threshold_error")
             ELSE r

\* mutant: the value of mode is not looked at
handle_settings_command_anymode(i, rs, env, c, k, v) ==
    LET key == Lower(k)
        val == Lower(v)
    IN  IF key = "threshold" THEN settings_threshold(i, rs, env, c, val)
        ELSE IF key = "mode"
        THEN send_text_to_chat(update_settings_mode(rs, env, c, val), env, "mode_set")
        ELSE send_text_to_chat(rs, env, "settings_unknown")

handle_settings_command(i, rs, env, c, k, v) ==
    LET key == Lower(k)
        val == Lower(v)
    IN  IF key = "threshold" THEN settings_threshold(i, rs, env, c, val)
        ELSE IF key = "mode" /\ val \in Modes
        THEN send_text_to_chat(update_settings_mode(rs, env, c, val), env, "mode_set")
        ELSE send_text_to_chat(rs, env, "settings_unknown")

handle_reset_command(i, rs, env, c) ==
    send_text_to_chat(
        update_settings_mode(
            update_settings_threshold(forget_conversation(clear_chat_logs(i, rs, c), c),
                                      env, c, Num(ENGAGE_DEFAULT)),
            env, c, "normal"),
        env, "reset")

run_command(i, rs, env, c, t) ==
    LET cmd == CommandOf(t)
        args == ArgsOf(t)
        r == CASE cmd = "/help" -> send_text_to_chat(rs, env, "help")
               [] cmd = "/summary" -> summarize_chat(i, rs, env, c)
               [] cmd = "/settings" /\ Len(args) >= 2 ->
                      handle_settings_command(i, rs, env, c, args[1], args[2])
               [] cmd = "/optout" -> send_text_to_chat(rs, env, "optout")
               [] cmd = "/reset" -> handle_reset_command(i, rs, env, c)
               [] OTHER -> rs
    IN  r

\* ---- replies ----------------------------------------------------------------
\* the thinking task's own send: an exception in it stays in the task
thinking_send(rs, env) ==
    IF SendFails(rs, env) THEN [rs EXCEPT !.nsend = @ + 1]
    ELSE [rs EXCEPT !.sent = Append(@, THINKING), !.nsend = @ + 1]

answer_when_mentioned_nosend(rs, env, c) ==
    mark_conversation_active(call_llm(rs, env, "answer"), c)

answer_when_mentioned(rs, env, c) ==
    mark_conversation_active(
        send_text_to_chat(call_llm(rs, env, "answer"), env, ReplyKind(env, "answer")), c)

run_with_thinking(rs, env, c, enable) ==
    LET before == IF enable /\ env.think = "before" THEN thinking_send(rs, env) ELSE rs
        main == answer_when_mentioned(before, env, c)
    IN  IF enable /\ env.think = "after" /\ main.nsend > before.nsend
        THEN thinking_send(main, env)
        ELSE main

\* the messages whose text is built from what a provider returned or raised:
\* MSG_DRAW_ERROR.format(error=<error.message, resp.text or str(e)>),
\* f"图片上传失败: {upload_error}" and f"图片发送失败: {str(e)}"
CarriesProviderText(kind) == kind \in {"draw_error", "upload_error", "image_send_failed"}

\* generate_image asks the image model; it returns its failures as a string
generate_image(rs) ==
    IF rs.failed THEN rs ELSE [rs EXCEPT !.asked = @ \cup {"image_gen"}]

handle_draw_request(rs, env, c) ==
    LET r1 == generate_image(send_text_to_chat(rs, env, "drawing")) IN
    CASE env.draw = "gen_error" -> send_text_to_chat(r1, env, "draw_error")
      [] env.draw = "upload_error" -> send_text_to_chat(r1, env, "upload_error")
      [] env.draw = "send_error" -> send_text_to_chat(r1, env, "image_send_failed")
      [] OTHER -> send_text_to_chat(r1, env, "image")

\* is_draw_request (main.py) is deprecated and returns False; message_handler.py
\* asks classify_intent
WantsDraw(i, env) == i = "modular" /\ env.intent = "draw"

\* classify_intent asks the small model and catches whatever goes wrong;
\* only message_handler.py calls it
classify_intent(i, rs) ==
    IF rs.failed \/ i = "main" THEN rs ELSE [rs EXCEPT !.asked = @ \cup {"classify"}]

reply_addressed(i, rs, env, e) ==
    LET r == classify_intent(i, rs) IN
    IF WantsDraw(i, env)
    THEN mark_conversation_active(handle_draw_request(r, env, e.chat), e.chat)
    ELSE run_with_thinking(r, env, e.chat, e.images > 0)

\* mutant: the be-quiet phrases are not looked for
reply_sticky_nozip(i, rs, env, e) == reply_addressed(i, rs, env, e)

reply_sticky(i, rs, env, e) ==
    IF should_zip_reply(e.text)
    THEN mark_conversation_active(send_text_to_chat(rs, env, "zip"), e.chat)
    ELSE reply_addressed(i, rs, env, e)

\* mutant: a score equal to the threshold gets no reply
maybe_proactive_engage_strict(rs, env, t, thr) ==
    IF rs.failed \/ ~PyLess(thr, Num(basic_engage_score(t))) THEN rs
    ELSE send_text_to_chat(call_llm(rs, env, "proactive"), env,
                           ReplyKind(env, "proactive"))

maybe_proactive_engage(rs, env, t, thr) ==
    IF rs.failed \/ ~PyGe(Num(basic_engage_score(t)), thr) THEN rs
    ELSE send_text_to_chat(call_llm(rs, env, "proactive"), env,
                           ReplyKind(env, "proactive"))

\* settings["mode"] != "quiet" guards the proactive reply
QuietSkips(m) == m = "quiet"

proactive(rs, env, e) ==
    LET r == get_or_create_settings(rs, env, e.chat)
    IN  IF QuietSkips(r.modeRead) THEN r
        ELSE maybe_proactive_engage(r, env, e.text, r.thrRead)

\* ---- one handling -------------------------------------------------------------

\* mutant: the handler has no except clause of its own
handler_except_none(rs) == [escaped |-> rs.failed, logged |-> FALSE]

\* except Exception as e: logger.error(f"... error event_id={event_id}: {e}"),
\* the last clause of the handler: what was raised and not caught earlier is
\* logged and goes no further
handler_except(rs) == [escaped |-> FALSE, logged |-> rs.failed]

\* nothing outside the process failed during this handling
Clean(env) == env.send = "ok" /\ env.llm = "ok" /\ env.draw = "ok"

\* the value float() made of the argument of a /settings threshold command
ThresholdParse(t) ==
    IF /\ StartsWithSlash(t) /\ CommandOf(t) = "/settings" /\ Len(ArgsOf(t)) >= 2
       /\ Lower(ArgsOf(t)[1]) = "threshold"
    THEN ParseFloat(Lower(ArgsOf(t)[2]))
    ELSE NoParse

\* the run record is evaluated once and its effects are committed
Finish(e, env, rs) ==
    \E r \in {rs} :
        /\ settingsRow' = r.rows
        /\ conversation_active_until' = r.active
        /\ lastWrite' = r.lw
        /\ chat_logs' = r.logs
        /\ appended' = r.app
        /\ last' = [chat |-> e.chat, slash |-> StartsWithSlash(e.text),
                    mentioned |-> mentioned_bot(e), sticky |-> in_sticky_conversation(e),
                    parsed |-> ThresholdParse(e.text),
                    clean |-> Clean(env), dbUp |-> DbUp(env), intent |-> env.intent,
                llm |-> env.llm, sendOk |-> (env.send = "ok"),
                zip |-> should_zip_reply(e.text),
                    score |-> basic_engage_score(e.text),
                    sender_type |-> e.sender_type, self |-> e.self,
                    chat_type |-> e.chat_type, mentions |-> e.mentions,
                    marked |-> (r.active[e.chat] = now + ConvTTL),
                    branch |-> Branch(impl, e),
                    preMode |-> settingsRow[e.chat].mode,
                    sent |-> r.sent, failed |-> r.failed,
                    escaped |-> handler_except(r).escaped,
                    logged |-> handler_except(r).logged, asked |-> r.asked,
                    modeRead |-> r.modeRead, thrRead |-> r.thrRead]
        /\ UNCHANGED <<impl, taskVars, fnVars, apiVars, intakeVars, thinkVars, dbConfigured, now>>

\* /settings threshold is the one command that can send after a failed send
CommandSendOutcomes(t) ==
    IF ThresholdParse(t) # NoParse THEN SendOutcomes ELSE {"ok", "all"}

CommandEnvs(t) ==
    { [QuietEnv EXCEPT !.db = d, !.send = s, !.llm = l] :
        d \in DbOutcomes, s \in CommandSendOutcomes(t),
        l \in IF CommandOf(t) = "/summary" THEN LlmOutcomes ELSE {"ok"} }

ChatEnvs(e) ==
    IF e.images > 0
    THEN { v \in { [QuietEnv EXCEPT !.send = s, !.llm = l, !.think = th] :
                     s \in SendOutcomes, l \in LlmOutcomes,
                     th \in {"none", "before", "after"} } :
             /\ (v.think = "after" => v.llm = "ok")
             /\ (v.send = "first" => v.think = "before") }
    ELSE { v \in { [QuietEnv EXCEPT !.send = s, !.llm = l] :
                     s \in {"ok", "all"}, l \in LlmOutcomes } :
             v.llm = "raise" => v.send = "ok" }

\* main.py never asks the classifier: what it would have answered changes
\* nothing there, so one environment stands for all
DrawEnvs(i) ==
    IF i = "main" THEN { [QuietEnv EXCEPT !.intent = "draw"] }
    ELSE { v \in { [QuietEnv EXCEPT !.intent = "draw", !.send = s, !.draw = d] :
                     s \in {"ok", "all"}, d \in DrawOutcomes } :
             v.send = "all" => v.draw = "ok" }

ZipEnvs == { [QuietEnv EXCEPT !.send = s] : s \in {"ok", "all"} }

ProactiveEnvs ==
    { v \in { [QuietEnv EXCEPT !.db = d, !.send = s, !.llm = l] :
                d \in DbOutcomes, s \in {"ok", "all"}, l \in LlmOutcomes } :
        v.llm = "raise" => v.send = "ok" }

handle_dropped(e) ==
    /\ Branch(impl, e) = "none"
    /\ Finish(e, QuietEnv, RunStart)

handle_command(e) ==
    /\ Branch(impl, e) = "command"
    /\ \E env \in CommandEnvs(e.text) :
          Finish(e, env, run_command(impl, store_message(RunStart, e), env, e.chat, e.text))

handle_mention(e) ==
    /\ Branch(impl, e) = "mention"
    /\ \E env \in ChatEnvs(e) \cup DrawEnvs(impl) :
          Finish(e, env,
                 reply_addressed(impl,
                                 mark_conversation_active(store_message(RunStart, e), e.chat),
                                 env, e))

handle_sticky(e) ==
    /\ Branch(impl, e) = "sticky"
    /\ \E env \in IF should_zip_reply(e.text) THEN ZipEnvs
                  ELSE ChatEnvs(e) \cup DrawEnvs(impl) :
          Finish(e, env, reply_sticky(impl, store_message(RunStart, e), env, e))

handle_proactive(e) ==
    /\ Branch(impl, e) = "proactive"
    /\ \E env \in ProactiveEnvs : Finish(e, env, proactive(store_message(RunStart, e), env, e))

Tick ==
    /\ now < MaxTime
    /\ now' = now + 1
    /\ UNCHANGED <<impl, taskVars, fnVars, apiVars, intakeVars, thinkVars, dbConfigured, settingsRow,
                   conversation_active_until, chat_logs, appended, lastWrite, last>>


InitHandler ==
    /\ impl \in Impls
    /\ FnIdle
    /\ ApiIdle
    /\ TaskIdle
    /\ IntakeIdle
    /\ ThinkIdle
    /\ dbConfigured \in BOOLEAN
    /\ settingsRow = [c \in Chats |-> NoRow]
    /\ conversation_active_until = [c \in Chats |-> 0]
    /\ now = 1
    /\ chat_logs = [c \in Chats |-> <<>>]
    /\ appended = [c \in Chats |-> <<>>]
    /\ lastWrite = [c \in Chats |-> [mode |-> "none", threshold |-> [nan |-> FALSE, v |-> -1]]]
    /\ last = NoLast

\* the messages of the reply-policy specification
HandlerTexts == { T_hello, T_question }

HandlerCommands ==
    { <<"/help">>, <<"/foo", "zenmeban?">>, <<"/settings">>,
      <<"/settings", "mode", "quiet">> }

UserEvent(c, ct, t, m, n) ==
    [chat |-> c, chat_type |-> ct, sender_type |-> "user", self |-> FALSE,
     text |-> t, mentions |-> m, images |-> n, mid |-> "m1"]

HandlerEvents ==
    { UserEvent(c, "group", t, m, 0) :
        c \in OneChat, t \in HandlerTexts \cup HandlerCommands, m \in {"none", "bot"} }
    \cup { UserEvent(c, "p2p", T_hello, "none", 0) : c \in OneChat }
    \cup { UserEvent(c, "group", T_empty, "none", 0) : c \in OneChat }
    \cup GatedEvents

HandleDropped == \E e \in HandlerEvents : handle_dropped(e)
HandleCommand == \E e \in HandlerEvents : handle_command(e)
HandleMention == \E e \in HandlerEvents : handle_mention(e)
HandleSticky == \E e \in HandlerEvents : handle_sticky(e)
HandleProactive == \E e \in HandlerEvents : handle_proactive(e)

NextHandler ==
    \/ HandleDropped \/ HandleCommand \/ HandleMention \/ HandleSticky
    \/ HandleProactive \/ Tick

SpecHandler == InitHandler /\ [][NextHandler]_vars

\* the messages of the conversation specification: a plain group message with
\* every kind of mention, a be-quiet phrase, a message that names the bot with
\* and without an image, and the command that sets quiet mode
ConversationEvents ==
    { UserEvent(c, "group", T_hello, m, 0) : c \in OneChat, m \in MentionKinds }
    \cup { UserEvent(c, "group", T_zip, m, 0) : c \in OneChat, m \in {"none", "other"} }
    \cup { UserEvent(c, "group", T_atbot, "none", n) : c \in OneChat, n \in {0, 1} }
    \cup { UserEvent(c, "group", <<"/settings", "mode", "quiet">>, "none", 0) : c \in OneChat }

ConversationCommand == \E e \in ConversationEvents : handle_command(e)
ConversationMention == \E e \in ConversationEvents : handle_mention(e)
ConversationSticky == \E e \in ConversationEvents : handle_sticky(e)
ConversationProactive == \E e \in ConversationEvents : handle_proactive(e)

NextConversation ==
    \/ ConversationCommand \/ ConversationMention \/ ConversationSticky
    \/ ConversationProactive \/ Tick

SpecConversation == InitHandler /\ [][NextConversation]_vars

\* the messages of the proactive-reply specification: texts of engage score
\* 0, 0.8 and 1.0, the commands that set the threshold to its two ends and the
\* mode to active, a mention, which opens the window, and a message for
\* someone else, which is not addressed to the bot inside the window either
EngageTexts ==
    { T_hello, T_question, T_full, T_atbot,
      <<"/settings", "threshold", "0">>, <<"/settings", "threshold", "1">>,
      <<"/settings", "mode", "active">> }

EngageEvents ==
    { UserEvent(c, "group", t, "none", 0) : c \in OneChat, t \in EngageTexts }
    \cup { UserEvent(c, "group", T_question, "other", 0) : c \in OneChat }

EngageCommand == \E e \in EngageEvents : handle_command(e)
EngageMention == \E e \in EngageEvents : handle_mention(e)
EngageSticky == \E e \in EngageEvents : handle_sticky(e)
EngageProactive == \E e \in EngageEvents : handle_proactive(e)

NextEngage ==
    \/ EngageCommand \/ EngageMention \/ EngageSticky \/ EngageProactive

SpecEngage == InitHandler /\ [][NextEngage]_vars

\* the messages of the settings specification
SettingsTexts ==
    { <<"/settings", "threshold", "0.3">>, <<"/settings", "threshold", "7">>,
      <<"/settings", "threshold", "-2">>, <<"/settings", "threshold", "nan">>,
      <<"/settings", "Threshold", "abc">>,
      <<"/settings", "mode", "QUIET">>, <<"/settings", "mode", "active">>,
      <<"/settings", "mode", "loud">>, <<"/reset">>, T_question }

SettingsEvents ==
    { UserEvent(c, "group", t, "none", 0) : c \in OneChat, t \in SettingsTexts }

SettingsCommand == \E e \in SettingsEvents : handle_command(e)
SettingsProactive == \E e \in SettingsEvents : handle_proactive(e)

NextSettings == SettingsCommand \/ SettingsProactive

SpecSettings == InitHandler /\ [][NextSettings]_vars

\* the messages of the recent-message specification: distinguishable stored
\* records, a plain text, /reset, /summary, and a message the sender gate drops
RingMids == {"m1", "m2", "m3"}

RingEvents ==
    { [UserEvent(c, "group", t, "none", 0) EXCEPT !.mid = k] :
        c \in OneChat, t \in {T_hello, <<"/reset">>}, k \in RingMids }
    \cup { UserEvent(c, "group", <<"/summary">>, "none", 0) : c \in OneChat }
    \cup { [g EXCEPT !.mid = "m2"] : g \in { x \in GatedEvents : x.sender_type = "app" } }

RingDropped == \E e \in RingEvents : handle_dropped(e)
RingCommand == \E e \in RingEvents : handle_command(e)
RingProactive == \E e \in RingEvents : handle_proactive(e)

NextRing == RingDropped \/ RingCommand \/ RingProactive

SpecRing == InitHandler /\ [][NextRing]_vars

\* the messages of the isolation specification: chat c1 is set to quiet and
\* addressed, chat c2 is addressed and chatted in, with every outcome of the
\* collaborators
IsolationEvents ==
    { UserEvent("c1", "group", t, "none", 0) :
        t \in { T_atbot, <<"/settings", "mode", "quiet">> } }
    \cup { UserEvent("c2", "group", t, "none", 0) : t \in { T_atbot, T_question } }

IsolationCommand == \E e \in IsolationEvents : handle_command(e)
IsolationMention == \E e \in IsolationEvents : handle_mention(e)
IsolationSticky == \E e \in IsolationEvents : handle_sticky(e)
IsolationProactive == \E e \in IsolationEvents : handle_proactive(e)

NextIsolation ==
    \/ IsolationCommand \/ IsolationMention \/ IsolationSticky \/ IsolationProactive

SpecIsolation == InitHandler /\ [][NextIsolation]_vars

(***************************************************************************)
(* Properties                                                              *)
(***************************************************************************)

\* C1 (as stated): for any sequence of authorized deliveries the message
\* handler is started at most once per non-empty event_id.
C1_AtMostOncePerEventId ==
    \A e \in EventIds \ {""} : starts[e] <= 1

\* C1 (amended): a delivery answered as a duplicate gets code 0 and dispatches
\* nothing; an event_id whose handler is started is remembered by that same
\* delivery; and while an event_id is remembered no delivery starts its handler
\* again.  (An id evicted from the bounded FIFO can be dispatched again.)
C1_AtMostOnceWhileRemembered ==
    /\ [](lastResp.dup => lastResp.resp = "code0" /\ ~lastResp.dispatched)
    /\ [][\A e \in EventIds \ {""} :
            /\ (starts'[e] > starts[e] => e \in recent_event_set')
            /\ (e \in recent_event_set => starts'[e] = starts[e])]_vars

C1_Witness ==
    /\ lastResp.dup
    /\ lastResp.resp = "code0"
    /\ nDeliv >= 2
    /\ \E e \in EventIds \ {""} : starts[e] = 1 /\ e \in recent_event_set

\* C2: every thinking message in the outbox precedes every reply, and no
\* thinking message is sent before the delay has elapsed.
C2_ThinkingOnlyBeforeReply ==
    /\ \A i, j \in 1..Len(outbox) :
          (outbox[i] = REPLY /\ outbox[j] = THINKING) => j < i
    /\ (~delayElapsed => \A j \in 1..Len(outbox) : outbox[j] # THINKING)

\* C3: in main.py no webhook request is ever held open waiting for a handler.
C3_IntakeNeverWaitsForHandler ==
    impl = "main" => requests = <<>>

\* C4: every authorized delivery that was answered was answered with success.
C4_IntakeAnswersSuccess ==
    lastResp.authorized => lastResp.resp = "code0"

\* C6: when the stored mode of the chat is quiet, a message that is not a
\* command, does not mention the bot and is outside the sticky window gets no
\* outbound message.
C6_QuietUnaddressedSilent ==
    (last.preMode = "quiet" /\ ~last.slash /\ ~last.mentioned /\ ~last.sticky)
        => last.sent = <<>>

C8_QuietRepliesOnlyWhenMentioned ==
    (last.preMode = "quiet" /\ ~last.mentioned /\ last.branch = "sticky")
        => last.sent = <<>>

\* C9: handling a message whose text begins with "/" never asks the LLM for an
\* answer or a proactive reply.
C9_SlashNeverReachesLLM ==
    last.slash => last.asked \cap {"answer", "proactive"} = {}

\* what get_or_create_settings returns for chat c when the database, if there
\* is one, answers
ReadNow(c) == SettingsRead(settingsRow, QuietEnv, c)

\* C5: without a database, the next settings read returns the latest value
\* handed to update_settings_mode and to update_settings_threshold.
C5_ReadYourWritesWithoutDatabase ==
    ~dbConfigured =>
        \A c \in Chats :
            /\ (lastWrite[c].mode # "none" => ReadNow(c).mode = lastWrite[c].mode)
            /\ (lastWrite[c].threshold # NoRow.threshold =>
                    ReadNow(c).threshold = lastWrite[c].threshold)

InUnitRange(f) == ~f.nan /\ 0 <= f.v /\ f.v <= 100

\* the bound of [0, 1] nearest to a number
NearestInRange(f) ==
    IF f.v < 0 THEN Num(0) ELSE IF f.v > 100 THEN Num(100) ELSE f

\* C10: every stored threshold and every threshold a settings read returns is
\* in [0, 1]; a /settings threshold command with a parsable number hands the
\* number clamped to the nearest bound to update_settings_threshold, and the
\* row holds it when the database is up (NaN is stored as a value in range);
\* a command with an unparsable value changes no row, makes no write, and
\* sends the threshold-error message when the send succeeds.
C10_ThresholdInUnitRange ==
    /\ [](/\ \A c \in Chats : settingsRow[c] # NoRow => InUnitRange(settingsRow[c].threshold)
          /\ \A c \in Chats : InUnitRange(ReadNow(c).threshold)
          /\ (last.modeRead # "none" => InUnitRange(last.thrRead))
          /\ (last.branch = "command" /\ last.parsed # NoParse /\ ~last.parsed.err =>
                /\ InUnitRange(lastWrite[last.chat].threshold)
                /\ (~last.parsed.f.nan =>
                      lastWrite[last.chat].threshold = NearestInRange(last.parsed.f))
                /\ (last.dbUp =>
                      settingsRow[last.chat].threshold = lastWrite[last.chat].threshold)))
    /\ [][(last'.branch = "command" /\ last'.parsed.err) =>
            /\ settingsRow' = settingsRow
            /\ lastWrite' = lastWrite
            /\ (last'.clean => last'.sent = <<"threshold_error">>)]_vars

C10_Witness ==
    /\ last.branch = "command"
    /\ last.parsed = [err |-> FALSE, f |-> Num(700)]
    /\ last.dbUp
    /\ settingsRow[last.chat].threshold = Num(100)
    /\ last.sent = <<"threshold_set">>

\* C11: for every chat the recent-message ring holds at most its capacity
\* entries and equals the most recent capacity-many appended messages, in
\* append order.
C11_RingIsLatestAppended ==
    \A c \in Chats :
        /\ Len(chat_logs[c]) <= LogsMaxlen
        /\ chat_logs[c] = KeepLatest(appended[c], LogsMaxlen)

\* the envelopes that declare a verification challenge
ChallengeBodies ==
    { b \in Bodies : BodyType(b) = URL_VERIFICATION /\ b.challenge # "absent" }

\* C12: a delivery of an envelope with type url_verification and a challenge
\* is answered with that challenge, whatever its token, and changes nothing
\* else: not the dedup FIFO or set, no request held, no task, no handler
\* started, no message sent.
C12_ChallengeEchoedOnly ==
    [][\A b \in ChallengeBodies :
          feishu_events(b) =>
              /\ lastResp'.resp = "challenge"
              /\ lastResp'.echo = b.challenge
              /\ UNCHANGED <<recent_event_ids, recent_event_set, requests, tasks,
                             starts, replies>>]_vars

\* the deliveries that are not URL challenges, by where the configured token
\* is found in them
UntokenedBodies ==
    { b \in GateBodies : ~Truthy(verify_url_challenge(b)) /\ b.tok = "none" }

TokenedBodies ==
    { b \in GateBodies : ~Truthy(verify_url_challenge(b)) /\ b.tok # "none" }

Rejections == {"403", "exception"}

\* a step that answers with a rejection and leaves the intake state alone
RejectedNoEffect ==
    /\ lastResp'.resp \in Rejections
    /\ UNCHANGED <<recent_event_ids, recent_event_set, requests, tasks, starts, replies>>

\* a step that records the non-empty id e, or handles the empty id, and
\* starts the handler when the event is a message
Processed(e, isMsg) ==
    /\ (e # "" => e \in recent_event_set')
    /\ (isMsg => starts'[e] = starts[e] + 1)

C15_DrawPipelineInOrder ==
    (last.intent = "draw" /\ last.branch \in {"mention", "sticky"} /\ last.clean)
        => /\ last.sent = <<"drawing", "image">>
           /\ "answer" \notin last.asked
           /\ last.marked

\* C16: a handling that announced a drawing and sent no image sends an error
\* message after the announcement, and no message it sends carries text that
\* comes from a provider.
C16_DrawFailureFixedMessage ==
    (/\ last.sent # <<>>
     /\ last.sent[1] = "drawing"
     /\ \A i \in 1..Len(last.sent) : last.sent[i] # "image")
        => /\ Len(last.sent) >= 2
           /\ \A i \in 1..Len(last.sent) : ~CarriesProviderText(last.sent[i])

\* C17: when the LLM call for the answer to an addressed message fails
\* (error status, unparsable body, timeout or transport error) and the chat
\* platform accepts messages, an error message is sent to the chat.
C17_LlmFailureAnswered ==
    (/\ last.branch \in {"mention", "sticky"}
     /\ "answer" \in last.asked
     /\ last.llm # "ok"
     /\ last.sendOk)
        => \E i \in 1..Len(last.sent) : last.sent[i] = "llm_error"

\* C18: a message handled in the sticky window (a group message in the
\* window that mentions neither the bot nor anyone else) whose text contains
\* a be-quiet phrase gets, when the send succeeds, exactly one message, the
\* muted-face emoji; neither the LLM, the classifier nor the image model is
\* asked; and the window is refreshed to now + TTL.
C18_ZipReplyInStickyWindow ==
    (last.branch = "sticky" /\ last.zip /\ last.sendOk)
        => /\ last.sent = <<"zip">>
           /\ last.asked = {}
           /\ last.marked
           /\ ~last.failed

C18_Witness ==
    /\ last.branch = "sticky" /\ last.zip /\ last.sendOk
    /\ ~last.mentioned
    /\ last.sent = <<"zip">>
    /\ conversation_active_until[last.chat] = now + ConvTTL
    /\ now > 1

\* the messages that are replies of the bot
ReplyKinds == {"answer", "image", "zip", "proactive"}

\* C20: a handling that took the mention branch, or that sent a reply (answer,
\* image, zip emoji, proactive reply), leaves the chat's conversation window
\* open until now + TTL.
C20_StickyAfterMentionOrReply ==
    (\/ last.branch = "mention"
     \/ \E i \in 1..Len(last.sent) : last.sent[i] \in ReplyKinds)
        => last.marked

\* C19: once /reset has been acknowledged for a chat, the chat has no open
\* conversation window, a settings read with the database answering returns
\* mode normal and the default threshold, and the acknowledgement is the only
\* message sent.
C19_ResetRestoresDefaults ==
    (\E i \in 1..Len(last.sent) : last.sent[i] = "reset")
        => /\ last.sent = <<"reset">>
           /\ ~is_conversation_active(last.chat)
           /\ ReadNow(last.chat) = [mode |-> "normal", threshold |-> Num(ENGAGE_DEFAULT)]

\* C21: in the proactive branch with the mode read not quiet and nothing
\* failing, threshold 0 gives a proactive reply to every message and
\* threshold 1 gives none.
C21_ThresholdEndsAlwaysNever ==
    (last.branch = "proactive" /\ last.clean /\ last.modeRead \in Modes \ {"quiet"})
        => /\ (last.thrRead = Num(0) => last.sent = <<"proactive">>)
           /\ (last.thrRead = Num(100) => last.sent = <<>>)

(***************************************************************************)
(* mentioned_bot and extract_message_payload (feishu_api.py) on their own  *)
(***************************************************************************)
MaxMentions == 2

FEISHU_APP_ID == "cli_bot"
BOT_NAME == "bot"

\* entries of message.mentions: id.app_id and name
MentionEntries ==
    { [app_id |-> a, name |-> n] :
        a \in {"", "cli_bot", "cli_other"}, n \in {"", "bot", " bot ", "alice"} }

MentionLists ==
    UNION { [1..k -> MentionEntries] : k \in 0..MaxMentions }

\* json.loads(message.content): a text message {"text": ...}, a rich-text
\* message with a language wrapper {"zh_cn": {"title", "content"}} or without
\* one {"title", "content"}, and a content that does not parse ({})
PostTitles == { <<>>, <<"@bot">> }
PostBodies == { <<>>, <<"hi">>, <<"hi", "@bot">> }

Contents ==
    { [kind |-> "text", text |-> t, title |-> <<>>, body |-> <<>>] :
        t \in { <<>>, <<"hi">>, <<"@bot", "hi">> } }
    \cup { [kind |-> k, text |-> <<>>, title |-> t, body |-> b] :
             k \in {"post_lang", "post_plain"}, t \in PostTitles, b \in PostBodies }
    \cup { [kind |-> "invalid", text |-> <<>>, title |-> <<>>, body |-> <<>>] }

MentionMessages == { [mentions |-> ms, content |-> c] : ms \in MentionLists, c \in Contents }

\* str.strip() on the names above
Strip(n) == IF n = " bot " THEN "bot" ELSE n

\* the text extract_message_payload returns: content["text"] of a text
\* message; title and the joined text elements of a rich-text message
extract_message_payload(c) ==
    CASE c.kind = "text" -> c.text
      [] c.kind \in {"post_lang", "post_plain"} -> c.title \o c.body
      [] OTHER -> <<>>

\* content.get("text", ""), the text the third test of mentioned_bot reads
ContentTextField(c) == IF c.kind = "text" THEN c.text ELSE <<>>

mentioned_by_app_id(ms) ==
    \E i \in 1..Len(ms) : ms[i].app_id # "" /\ ms[i].app_id = FEISHU_APP_ID

mentioned_by_name(ms) ==
    \E i \in 1..Len(ms) : Strip(ms[i].name) # "" /\ Strip(ms[i].name) = BOT_NAME

mentioned_bot_event(m) ==
    \/ mentioned_by_app_id(m.mentions)
    \/ mentioned_by_name(m.mentions)
    \/ TextNamesBot(ContentTextField(m.content))

\* everything but the function under evaluation is idle
InitFn ==
    /\ impl \in Impls
    /\ ApiIdle
    /\ TaskIdle
    /\ IntakeIdle
    /\ ThinkIdle
    /\ HandlerIdle

InitMention == InitFn /\ input \in MentionMessages /\ output = <<>>

EvalMentionedBot ==
    /\ output = <<>>
    /\ output' = <<mentioned_bot_event(input)>>
    /\ UNCHANGED <<impl, taskVars, apiVars, intakeVars, thinkVars, handlerVars, input>>

SpecMention == InitMention /\ [][EvalMentionedBot]_vars

\* C22: mentioned_bot is true whenever an entry of mentions carries the bot's
\* app id, or an entry's name is the bot's name, or the text extracted from
\* the message (text or rich text) contains "@" + BOT_NAME.
C22_MentionedBotWheneverNamed ==
    output # <<>> =>
        ((\/ \E i \in 1..Len(input.mentions) : input.mentions[i].app_id = FEISHU_APP_ID
          \/ \E i \in 1..Len(input.mentions) : input.mentions[i].name = BOT_NAME
          \/ TextNamesBot(extract_message_payload(input.content)))
            => output[1])

(***************************************************************************)
(* _convert_size_to_aspect_ratio (image_gen.py) on its own                 *)
(***************************************************************************)
MaxEdge == 21

\* supported_ratios, in the order of the dict
SupportedRatios ==
    << <<1, 1>>, <<2, 3>>, <<3, 2>>, <<3, 4>>, <<4, 3>>, <<4, 5>>, <<5, 4>>,
       <<9, 16>>, <<16, 9>>, <<21, 9>> >>

RatioToken(key) ==
    CASE key = <<1, 1>> -> "1:1"   [] key = <<2, 3>> -> "2:3"
      [] key = <<3, 2>> -> "3:2"   [] key = <<3, 4>> -> "3:4"
      [] key = <<4, 3>> -> "4:3"   [] key = <<4, 5>> -> "4:5"
      [] key = <<5, 4>> -> "5:4"   [] key = <<9, 16>> -> "9:16"
      [] key = <<16, 9>> -> "16:9" [] key = <<21, 9>> -> "21:9"

RECURSIVE gcd(_, _)
gcd(a, b) == IF b = 0 THEN a ELSE gcd(b, a % b)

Abs(x) == IF x < 0 THEN 0 - x ELSE x

\* a non-negative fraction n/d, d > 0, and the order of two of them
FracLess(f, g) == f.n * g.d < g.n * f.d

\* mutant: the distance without abs()
RatioDistance_signed(w, h, key) == [n |-> w * key[2] - key[1] * h, d |-> h * key[2]]

\* abs(target_ratio - supported_ratio), as an exact fraction
RatioDistance(w, h, key) == [n |-> Abs(w * key[2] - key[1] * h), d |-> h * key[2]]

\* the loop over supported_ratios.keys(): i is the next index, best the index
\* of closest_key (0: None, min_distance = inf)
RECURSIVE ClosestKey(_, _, _, _)
ClosestKey(i, best, w, h) ==
    IF i > Len(SupportedRatios) THEN best
    ELSE IF best = 0 \/ FracLess(RatioDistance(w, h, SupportedRatios[i]),
                                  RatioDistance(w, h, SupportedRatios[best]))
         THEN ClosestKey(i + 1, i, w, h)
         ELSE ClosestKey(i + 1, best, w, h)

convert_size_to_aspect_ratio(width, height) ==
    LET divisor == gcd(width, height)
        w_ratio == width \div divisor
        h_ratio == height \div divisor
        ratio_key == <<w_ratio, h_ratio>>
    IN  IF \E i \in 1..Len(SupportedRatios) : SupportedRatios[i] = ratio_key
        THEN RatioToken(ratio_key)
        ELSE LET closest == ClosestKey(1, 0, w_ratio, h_ratio)
             IN  IF closest # 0 THEN RatioToken(SupportedRatios[closest]) ELSE "1:1"

Sizes == { [width |-> w, height |-> h] : w \in 1..MaxEdge, h \in 1..MaxEdge }

InitRatio == InitFn /\ input \in Sizes /\ output = <<>>

EvalAspectRatio ==
    /\ output = <<>>
    /\ output' = <<convert_size_to_aspect_ratio(input.width, input.height)>>
    /\ UNCHANGED <<impl, taskVars, apiVars, intakeVars, thinkVars, handlerVars, input>>

SpecRatio == InitRatio /\ [][EvalAspectRatio]_vars

\* |w/h - a/b| <= |w/h - c/d|, in whole numbers
NoFartherThan(w, h, k1, k2) ==
    Abs(w * k1[2] - k1[1] * h) * k2[2] <= Abs(w * k2[2] - k2[1] * h) * k1[2]

\* C23: for every size with positive width and height the token returned is
\* one of the ten supported tokens, no supported ratio is nearer to
\* width/height than the returned one, and a size whose ratio is exactly a
\* supported ratio gets that token.
C23_AspectRatioIsNearest ==
    output # <<>> =>
        \E i \in 1..Len(SupportedRatios) :
            /\ output[1] = RatioToken(SupportedRatios[i])
            /\ \A j \in 1..Len(SupportedRatios) :
                  /\ NoFartherThan(input.width, input.height,
                                   SupportedRatios[i], SupportedRatios[j])
                  /\ (input.width * SupportedRatios[j][2]
                         = SupportedRatios[j][1] * input.height) => j = i

\* a size that is not a supported ratio (5:3) gets the nearest one
C23_Witness ==
    input = [width |-> 5, height |-> 3] /\ output = <<"16:9">>

(***************************************************************************)
(* get_tenant_access_token and send_text_to_chat (feishu_api.py): tasks    *)
(* of one event loop; a task gives way to the others at each await         *)
(***************************************************************************)
TOKEN_MARGIN == 1      \* 60 s, one tick
TokenExpire == 2       \* data["expire"], in ticks

\* what the platform does with one request: answers with code 0, answers
\* with another code, or the request fails (timeout, transport error)
ApiOutcomes == {"ok", "code", "transport"}

CacheHit ==
    TENANT_TOKEN_CACHE.token # 0 /\ now < TENANT_TOKEN_CACHE.expire_at - TOKEN_MARGIN

\* send_text_to_chat up to the first await: get_tenant_access_token reads the
\* clock and the cache, returns the cached token or posts a refresh request
send_start(t) ==
    /\ callers[t].pc = "idle"
    /\ callers' = [callers EXCEPT ![t] =
            [pc |-> IF CacheHit THEN "send_post" ELSE "token_post",
             now0 |-> now, cached |-> CacheHit,
             remaining |-> IF CacheHit THEN TENANT_TOKEN_CACHE.expire_at - now ELSE 0,
             logged |-> FALSE]]
    /\ UNCHANGED <<impl, taskVars, fnVars, TENANT_TOKEN_CACHE, intakeVars, thinkVars, handlerVars>>

\* the refresh request is answered: the cache is written, or HTTPException is
\* raised after logging, or the transport error goes up as it is
token_response(t, o) ==
    /\ callers[t].pc = "token_post"
    /\ IF o = "ok"
       THEN /\ TENANT_TOKEN_CACHE' = [token |-> 1, expire_at |-> callers[t].now0 + TokenExpire]
            /\ callers' = [callers EXCEPT ![t].pc = "send_post"]
       ELSE /\ callers' = [callers EXCEPT ![t].pc = "raised", ![t].logged = (o = "code")]
            /\ UNCHANGED TENANT_TOKEN_CACHE
    /\ UNCHANGED <<impl, taskVars, fnVars, intakeVars, thinkVars, handlerVars>>

\* the message request is answered: a code other than 0 is logged, a failed
\* request goes up as it is
send_response(t, o) ==
    /\ callers[t].pc = "send_post"
    /\ callers' = [callers EXCEPT ![t].pc = IF o = "transport" THEN "raised" ELSE "returned",
                                  ![t].logged = (o = "code")]
    /\ UNCHANGED <<impl, taskVars, fnVars, TENANT_TOKEN_CACHE, intakeVars, thinkVars, handlerVars>>

\* the task is used for the next call
call_over(t) ==
    /\ callers[t].pc \in {"returned", "raised"}
    /\ callers' = [callers EXCEPT ![t] = NoCall]
    /\ UNCHANGED <<impl, taskVars, fnVars, TENANT_TOKEN_CACHE, intakeVars, thinkVars, handlerVars>>

SendStart == \E t \in Callers : send_start(t)
TokenResponse == \E t \in Callers, o \in ApiOutcomes : token_response(t, o)
SendResponse == \E t \in Callers, o \in ApiOutcomes : send_response(t, o)
CallOver == \E t \in Callers : call_over(t)

InitApi == InitFn /\ FnIdle

NextApi == SendStart \/ TokenResponse \/ SendResponse \/ CallOver \/ Tick

SpecApi == InitApi /\ [][NextApi]_vars

\* C24: send_text_to_chat never raises to its caller.
C24_SendTextNeverRaises == \A t \in Callers : callers[t].pc # "raised"

\* C25: at most one refresh request is in flight at a time, and a token is
\* taken from the cache only while more than the margin remains before its
\* expiry.
C25_SingleFlightRefresh ==
    /\ Cardinality({ t \in Callers : callers[t].pc = "token_post" }) <= 1
    /\ \A t \in Callers : callers[t].cached => callers[t].remaining > TOKEN_MARGIN

\* C26: when the chat's ring holds messages, /summary is never answered with
\* the no-messages notice, whether the database answers or not: the ring is
\* the context when the message log gives nothing.
C26_ContextFallsBackToRing ==
    (last.branch = "command" /\ chat_logs[last.chat] # <<>>)
        => \A i \in 1..Len(last.sent) : last.sent[i] # "no_messages"

\* the delivery of body b hands the event to welcome_new_user
WelcomeStarted(b) ==
    /\ feishu_events(b)
    /\ Len(requests') = Len(requests) + 1
    /\ requests'[Len(requests')].pc = "welcome_llm"

\* C27: a delivery starts a welcome only when the event type starts with
\* im.chat.member and contains add or user_added, and the event carries a chat
\* id and a member.
C27_WelcomeOnlyForMemberAdded ==
    [][\A b \in GateBodies :
          WelcomeStarted(b) =>
              /\ StartsWithChatMember(b.etype)
              /\ ContainsAdd(b.etype) \/ ContainsUserAdded(b.etype)
              /\ b.hasMember]_vars

\* C28: a message whose sender kind is not "user", or whose sender is the bot
\* itself, is dropped by the gate, before the message is stored: it takes no
\* branch and nothing is sent.
C28_NonUserOrSelfDropped ==
    (last.branch # "init" /\ (last.sender_type # "user" \/ last.self))
        => last.branch = "none" /\ last.sent = <<>>

(***************************************************************************)
(* classify_intent and _try_extract_json (semantic_intent.py) on their own *)
(***************************************************************************)
MaxResponseLen == 5

\* A response of the model is a sequence of tokens:
\*   "fence"  a code-fence marker (``` or ```json)
\*   "{" "}"  braces
\*   "draw"   the member "task_type": "draw" (a valid type)
\*   "image"  the member "task_type": "image" (not a valid type)
\*   "k"      another member; before "{" it is the key of a nested object
\*   "junk"   text that is not JSON
ResponseTokens == {"fence", "{", "}", "draw", "image", "k", "junk"}

Responses == UNION { [1..n -> ResponseTokens] : n \in 0..MaxResponseLen }

valid_types == {"draw", "chat", "command", "other"}

\* the loop over text_clean[start_idx:]: the index of the brace that closes
\* the one at start_idx, or 0
RECURSIVE MatchingBrace(_, _, _)
MatchingBrace(t, i, brace_count) ==
    IF i > Len(t) THEN 0
    ELSE LET c == IF t[i] = "{" THEN brace_count + 1
                  ELSE IF t[i] = "}" THEN brace_count - 1 ELSE brace_count
         IN  IF t[i] = "}" /\ c = 0 THEN i ELSE MatchingBrace(t, i + 1, c)

\* number of braces open before position i
RECURSIVE OpenBefore(_, _)
OpenBefore(t, i) ==
    IF i <= 1 THEN 0
    ELSE OpenBefore(t, i - 1)
         + (IF t[i - 1] = "{" THEN 1 ELSE IF t[i - 1] = "}" THEN 0 - 1 ELSE 0)

\* json.loads(t) yields a dict: one balanced object and nothing but members in it
IsJsonObject(t) ==
    /\ Len(t) >= 2
    /\ t[1] = "{"
    /\ MatchingBrace(t, 1, 0) = Len(t)
    /\ \A i \in 1..Len(t) : t[i] \notin {"fence", "junk"}

\* the members "task_type" of the outer object; the last one wins
TopTypes(t) == { i \in 1..Len(t) : t[i] \in {"draw", "image"} /\ OpenBefore(t, i) = 1 }

Max(S) == CHOOSE x \in S : \A y \in S : y <= x

\* result["task_type"], or "absent"
TaskTypeOf(t) == IF TopTypes(t) = {} THEN "absent" ELSE t[Max(TopTypes(t))]

\* _get_default_classify_intent_result("other")
DefaultIntent == [task_type |-> "other", default |-> TRUE]

RECURSIVE FirstBrace(_, _)
FirstBrace(t, i) ==
    IF i > Len(t) THEN 0 ELSE IF t[i] = "{" THEN i ELSE FirstBrace(t, i + 1)

IsNotFence(x) == x # "fence"

\* _try_extract_json: None (found = FALSE) or the dict extracted
try_extract_json(text) ==
    LET text_clean == SelectSeq(text, IsNotFence)
        start_idx == FirstBrace(text_clean, 1)
        end_idx == IF start_idx = 0 THEN 0 ELSE MatchingBrace(text_clean, start_idx, 0)
        json_str == IF end_idx = 0 THEN <<>> ELSE SubSeq(text_clean, start_idx, end_idx)
    IN  IF text = <<>> \/ start_idx = 0 \/ end_idx = 0 THEN [found |-> FALSE, task_type |-> "absent"]
        ELSE IF IsJsonObject(json_str) /\ TaskTypeOf(json_str) # "absent"
        THEN [found |-> TRUE, task_type |-> TaskTypeOf(json_str)]
        ELSE [found |-> FALSE, task_type |-> "absent"]

\* classify_intent for a non-empty message, from the outcome of call_small_llm
classify_intent_result(call, response) ==
    IF call = "raise" THEN DefaultIntent
    ELSE IF response = <<>> THEN DefaultIntent
    ELSE IF IsJsonObject(response)
    THEN IF TaskTypeOf(response) = "absent" THEN DefaultIntent
         ELSE IF TaskTypeOf(response) \notin valid_types
         THEN [task_type |-> "other", default |-> FALSE]
         ELSE [task_type |-> TaskTypeOf(response), default |-> FALSE]
    ELSE LET extracted == try_extract_json(response)
         IN  IF extracted.found
             THEN [task_type |-> extracted.task_type, default |-> FALSE]
             ELSE DefaultIntent

IntentInputs ==
    { [call |-> "ok", response |-> r] : r \in Responses }
    \cup { [call |-> "raise", response |-> <<>>] }

InitIntent == InitFn /\ input \in IntentInputs /\ output = <<>>

EvalClassifyIntent ==
    /\ output = <<>>
    /\ output' = <<classify_intent_result(input.call, input.response)>>
    /\ UNCHANGED <<impl, taskVars, apiVars, intakeVars, thinkVars, handlerVars, input>>

SpecIntent == InitIntent /\ [][EvalClassifyIntent]_vars

\* C29: whatever the model answers, classify_intent returns a task_type of
\* the four valid ones, and the default result when the call failed or the
\* response was empty.
C29_IntentAlwaysValidType ==
    output # <<>> =>
        /\ output[1].task_type \in valid_types
        /\ (input.call = "raise" \/ input.response = <<>>) => output[1] = DefaultIntent

PlainGroupMessage(l) ==
    /\ l.branch \notin {"init", "none"}
    /\ l.chat_type = "group" /\ ~l.slash /\ ~l.mentioned /\ l.mentions = "none"

\* C31: a plain group message is answered as addressed (sticky branch)
\* exactly when now <= active_until of its chat at the time it is handled,
\* and goes to the proactive branch otherwise; active_until is only ever set
\* to the time of a mark plus the TTL (or removed), and a chat without an
\* entry is not active.
C31_StickyExactlyWithinTtl ==
    /\ [][(now' = now /\ PlainGroupMessage(last'))
            => /\ last'.branch \in {"sticky", "proactive"}
               /\ last'.branch = "sticky" <=> now <= conversation_active_until[last'.chat]]_vars
    /\ [][\A c \in Chats :
            conversation_active_until'[c] # conversation_active_until[c]
                => conversation_active_until'[c] \in {now + ConvTTL, 0}]_vars
    /\ [](\A c \in Chats :
            /\ conversation_active_until[c] <= now + ConvTTL
            /\ conversation_active_until[c] = 0 => ~is_conversation_active(c))

\* a window that was opened has run out, and the next plain message went to
\* the proactive branch
C31_Witness ==
    /\ PlainGroupMessage(last) /\ last.branch = "proactive"
    /\ conversation_active_until[last.chat] > 0
    /\ now > conversation_active_until[last.chat]

AddressedKinds == {"answer", "image", "zip"}

\* C32: a group message that is no command, carries mentions and does not
\* mention the bot is handled by the proactive branch, whether or not the
\* sticky window is open, and gets neither an answer nor the zip emoji; no
\* event has mentioned_bot and mentions_someone_else both true.
C32_MessageForSomeoneElseNotAddressed ==
    /\ (/\ last.branch \notin {"init", "none"}
        /\ last.chat_type = "group" /\ ~last.slash
        /\ last.mentions # "none" /\ ~last.mentioned)
            => /\ last.branch = "proactive"
               /\ ~last.sticky
               /\ \A i \in DOMAIN last.sent : last.sent[i] \notin AddressedKinds
    /\ \A e \in ConversationEvents : ~(mentioned_bot(e) /\ mentions_someone_else(e))

\* a message that asks for the zip emoji, mentions somebody else and arrives
\* while the window is open
C32_Witness ==
    /\ last.branch = "proactive" /\ last.mentions = "other" /\ last.zip
    /\ is_conversation_active(last.chat)

ThinkingCount(box) == Cardinality({ j \in 1..Len(box) : box[j] = THINKING })

\* C33: the outbox of one answer holds a thinking message only when
\* thinking is enabled and the delay has elapsed, and at most one; the step
\* that hands it to the chat is taken while the main task has not completed.
C33_ThinkingOnlyWithImagesAfterDelay ==
    /\ [](/\ ThinkingCount(outbox) <= 1
          /\ ThinkingCount(outbox) = 1 => enable_thinking /\ delayElapsed)
    /\ [][ThinkingCount(outbox') > ThinkingCount(outbox)
            => enable_thinking /\ delayElapsed /\ ~done_set]_vars

\* an answer with images that took longer than the delay: indicator, then reply
C33_Witness ==
    /\ enable_thinking /\ mainPc = "done" /\ outbox = <<THINKING, REPLY>>

\* the messages of the mode specification: accepted values in both cases, a
\* value that is no mode, a key that is no setting, and a threshold
ModeTexts ==
    { <<"/settings", "mode", "QUIET">>, <<"/settings", "mode", "active">>,
      <<"/settings", "mode", "normal">>, <<"/settings", "mode", "loud">>,
      <<"/settings", "lang", "quiet">>, <<"/settings", "threshold", "0.3">> }

ModeEvents ==
    { UserEvent(c, "group", t, "none", 0) : c \in OneChat, t \in ModeTexts }

ModeCommand == \E e \in ModeEvents : handle_command(e)

SpecMode == InitHandler /\ [][ModeCommand]_vars

\* the text is /settings with a key and a value
IsSettingsCommand(t) ==
    StartsWithSlash(t) /\ CommandOf(t) = "/settings" /\ Len(ArgsOf(t)) >= 2

SettingsKey(t) == Lower(ArgsOf(t)[1])
SettingsVal(t) == Lower(ArgsOf(t)[2])

\* C34: a handling of /settings <key> <value> changes the stored mode only
\* when the key is mode and the lower-cased value is quiet, normal or active,
\* and then to that value; with key mode and any other value, or with a key
\* that is neither threshold nor mode, nothing stored changes, no update is
\* called, and the message sent (when the send works) is the 'unrecognised
\* setting' one.
C34_ModeOnlyFromKnownValues ==
    [][\A e \in ModeEvents :
          (IsSettingsCommand(e.text) /\ handle_command(e)) =>
              LET key == SettingsKey(e.text)
                  val == SettingsVal(e.text)
              IN  /\ (key = "mode" /\ settingsRow'[e.chat].mode # settingsRow[e.chat].mode)
                        => val \in Modes /\ settingsRow'[e.chat].mode = val
                  /\ (key = "mode" /\ val \in Modes /\ last'.dbUp /\ last'.clean)
                        => settingsRow'[e.chat].mode = val
                  /\ ((key = "mode" /\ val \notin Modes) \/ key \notin {"threshold", "mode"})
                        => /\ settingsRow' = settingsRow
                           /\ lastWrite' = lastWrite
                           /\ last'.sendOk => last'.sent = <<"settings_unknown">>]_vars

\* an unrecognised setting was refused while the chat has a stored row whose
\* mode came from an earlier, accepted command
C34_Witness ==
    /\ last.sent = <<"settings_unknown">>
    /\ settingsRow[last.chat] # NoRow
    /\ settingsRow[last.chat].mode = "quiet"

(***************************************************************************)
(* The dedup FIFO under authorized message deliveries                      *)
(***************************************************************************)
DedupBodies ==
    { b \in Bodies : b.shape = "header" /\ b.tok = "hdr" /\ b.etype = MSG_EVENT }

DeliverDedup == \E b \in DedupBodies : feishu_events(b)

NextDedup == DeliverDedup \/ RunTask \/ RunInline

SpecDedup == InitIntake /\ [][NextDedup]_vars

NoDuplicates(q) == \A i, j \in 1..Len(q) : q[i] = q[j] => i = j

\* the last n elements of a sequence
LastN(q, n) == IF Len(q) <= n THEN q ELSE SubSeq(q, Len(q) - n + 1, Len(q))

C39_EmptyEventIdNeverDeduplicated ==
    [][\A b \in DedupBodies :
          (EventIdOf(b) = "" /\ feishu_events(b)) =>
              /\ UNCHANGED <<recent_event_ids, recent_event_set>>
              /\ starts'[""] = starts[""] + 1
              /\ IF MessageIsBackground(impl)
                 THEN tasks'[""] = tasks[""] + 1 /\ ~lastResp'.dup
                 ELSE Len(requests') = Len(requests) + 1]_vars

\* two deliveries without event_id were both dispatched while the FIFO held
\* the id of another delivery
C39_Witness ==
    /\ starts[""] >= 2
    /\ recent_event_ids # <<>>
    /\ "" \notin recent_event_set

(***************************************************************************)
(* parse_size_from_text                                                    *)
(***************************************************************************)
Size(w, h) == [width |-> w, height |-> h]

IMAGE_SIZE_PRESETS(k) ==
    CASE k = "square" -> Size(1024, 1024)
      [] k = "landscape" -> Size(1024, 768)
      [] k = "portrait" -> Size(768, 1024)
      [] k = "wide" -> Size(1024, 576)
      [] k = "tall" -> Size(576, 1024)

\* A text is the set of preset keywords found in it and the first
\* WIDTHxHEIGHT the pattern finds (has = FALSE: none); a reference size is
\* absent (has = FALSE) or the size of the reference image.
PresetWords == {"landscape", "portrait", "wide", "tall"}
ExplicitEdges == {100, 1024, 5000}
ReferenceEdges == {1, 3, 1000}
MaxSizes == {256, 1024, 4096}

NoSize == [has |-> FALSE, width |-> 1, height |-> 1]

OptionalSizes(edges) ==
    {NoSize} \cup { [has |-> TRUE, width |-> w, height |-> h] : w, h \in edges }

\* the larger of two numbers
MaxOf(a, b) == IF a >= b THEN a ELSE b

\* int(x * y / z) for positive whole numbers
ScaleTrunc(x, y, z) == (x * y) \div z

parse_size_from_text(words, explicit, reference_size, max_size) ==
    IF reference_size.has
    THEN IF reference_size.width >= reference_size.height
         THEN Size(max_size,
                   ScaleTrunc(max_size, reference_size.height, reference_size.width))
         ELSE Size(ScaleTrunc(max_size, reference_size.width, reference_size.height),
                   max_size)
    ELSE IF "landscape" \in words THEN IMAGE_SIZE_PRESETS("landscape")
    ELSE IF "portrait" \in words THEN IMAGE_SIZE_PRESETS("portrait")
    ELSE IF "wide" \in words THEN IMAGE_SIZE_PRESETS("wide")
    ELSE IF "tall" \in words THEN IMAGE_SIZE_PRESETS("tall")
    ELSE IF explicit.has
    THEN IF explicit.width > max_size \/ explicit.height > max_size
         THEN LET m == MaxOf(explicit.width, explicit.height)
              IN  Size(ScaleTrunc(explicit.width, max_size, m),
                       ScaleTrunc(explicit.height, max_size, m))
         ELSE Size(explicit.width, explicit.height)
    ELSE IMAGE_SIZE_PRESETS("square")

SizeInputs ==
    [words : SUBSET PresetWords, explicit : OptionalSizes(ExplicitEdges),
     reference_size : OptionalSizes(ReferenceEdges), max_size : MaxSizes]

InitSize == InitFn /\ input \in SizeInputs /\ output = <<>>

EvalParseSize ==
    /\ output = <<>>
    /\ output' = <<parse_size_from_text(input.words, input.explicit,
                                        input.reference_size, input.max_size)>>
    /\ UNCHANGED <<impl, taskVars, apiVars, intakeVars, thinkVars, handlerVars, input>>

SpecSize == InitSize /\ [][EvalParseSize]_vars

\* C36: neither edge of the size returned exceeds IMAGE_MAX_SIZE, whatever
\* the size comes from; with a reference image the longer edge is
\* IMAGE_MAX_SIZE and the shorter one the reference ratio scaled to it and
\* truncated.
C36_SizeNeverExceedsMax ==
    output # <<>> =>
        /\ output[1].width <= input.max_size
        /\ output[1].height <= input.max_size
        /\ input.reference_size.has =>
              LET r == input.reference_size
              IN  IF r.width >= r.height
                  THEN output[1] = Size(input.max_size,
                                        (input.max_size * r.height) \div r.width)
                  ELSE output[1] = Size((input.max_size * r.width) \div r.height,
                                        input.max_size)

(***************************************************************************)
(* update_settings_threshold and update_settings_mode at the same time     *)
(***************************************************************************)
\* One task per field, both for the chat c1, against a database that works.
\* Each await on the database is one step; the values are those of
\* /settings threshold 0.3 and /settings mode quiet.
RaceChat == "c1"

NewValue(f) == IF f = "threshold" THEN Num(30) ELSE "quiet"

\* UPDATE settings SET <field> = <value> WHERE chat_id = <chat>
UpdateField(row, f, v) ==
    IF f = "threshold" THEN [row EXCEPT !.threshold = v] ELSE [row EXCEPT !.mode = v]

\* Setting(chat_id=chat_id, <field>=value): the other column takes its default
NewSetting(f, v) ==
    UpdateField([mode |-> "normal", threshold |-> Num(ENGAGE_DEFAULT)], f, v)

RaceUnchanged ==
    UNCHANGED <<impl, intakeVars, thinkVars, fnVars, apiVars, workers, drawer,
                dbConfigured, conversation_active_until, now, chat_logs, appended,
                lastWrite, last>>

\* the handler calls update_settings_*: Session(), s.execute(select ...)
write_start(f) ==
    /\ writers[f].pc = "idle" /\ ~writers[f].acked
    /\ writers' = [writers EXCEPT ![f].pc = "s1_query"]
    /\ UNCHANGED settingsRow
    /\ RaceUnchanged

\* the first session's query answers: with the row (the attribute is set and
\* commit awaited) or without (a second session is opened and queried)
s1_result(f) ==
    /\ writers[f].pc = "s1_query"
    /\ writers' = [writers EXCEPT ![f].pc =
                       IF settingsRow[RaceChat] # NoRow THEN "s1_commit" ELSE "s2_query"]
    /\ UNCHANGED settingsRow
    /\ RaceUnchanged

\* the first session commits: UPDATE of the one changed column
s1_commit(f) ==
    /\ writers[f].pc = "s1_commit"
    /\ settingsRow' = [settingsRow EXCEPT ![RaceChat] = UpdateField(@, f, NewValue(f))]
    /\ writers' = [writers EXCEPT ![f].pc = "ack"]
    /\ RaceUnchanged

\* the second session's query answers: obj.<field> = value, or s2.add(Setting(...))
s2_result(f) ==
    /\ writers[f].pc = "s2_query"
    /\ writers' = [writers EXCEPT ![f].pc =
                       IF settingsRow[RaceChat] # NoRow THEN "s2_update" ELSE "s2_insert"]
    /\ UNCHANGED settingsRow
    /\ RaceUnchanged

\* the second session commits.  An INSERT of a chat_id (the primary key) that
\* another task inserted in between raises IntegrityError, which the outer
\* except clause logs: the function returns as if it had written.
s2_commit(f) ==
    /\ writers[f].pc \in {"s2_update", "s2_insert"}
    /\ IF writers[f].pc = "s2_update"
       THEN /\ settingsRow' = [settingsRow EXCEPT ![RaceChat] = UpdateField(@, f, NewValue(f))]
            /\ writers' = [writers EXCEPT ![f].pc = "ack"]
       ELSE IF settingsRow[RaceChat] = NoRow
       THEN /\ settingsRow' = [settingsRow EXCEPT ![RaceChat] = NewSetting(f, NewValue(f))]
            /\ writers' = [writers EXCEPT ![f].pc = "ack"]
       ELSE /\ UNCHANGED settingsRow
            /\ writers' = [writers EXCEPT ![f].pc = "ack", ![f].dropped = TRUE]
    /\ RaceUnchanged

\* the handler sends the acknowledgement of the command
write_ack(f) ==
    /\ writers[f].pc = "ack"
    /\ writers' = [writers EXCEPT ![f].pc = "idle", ![f].acked = TRUE]
    /\ UNCHANGED settingsRow
    /\ RaceUnchanged

WriteStart == \E f \in SettingFields : write_start(f)
S1Result == \E f \in SettingFields : s1_result(f)
S1Commit == \E f \in SettingFields : s1_commit(f)
S2Result == \E f \in SettingFields : s2_result(f)
S2Commit == \E f \in SettingFields : s2_commit(f)
WriteAck == \E f \in SettingFields : write_ack(f)

\* the chat has no row yet, the row of get_or_create_settings, or a row that
\* earlier commands wrote
RaceRows ==
    { NoRow, [mode |-> "normal", threshold |-> Num(ENGAGE_DEFAULT)],
      [mode |-> "active", threshold |-> Num(0)],
      [mode |-> "quiet", threshold |-> Num(100)] }

InitRace ==
    /\ impl \in Impls
    /\ FnIdle /\ ApiIdle /\ TaskIdle /\ IntakeIdle /\ ThinkIdle
    /\ dbConfigured = TRUE
    /\ settingsRow \in { [c \in Chats |-> IF c = RaceChat THEN r ELSE NoRow] : r \in RaceRows }
    /\ conversation_active_until = [c \in Chats |-> 0]
    /\ now = 1
    /\ chat_logs = [c \in Chats |-> <<>>]
    /\ appended = [c \in Chats |-> <<>>]
    /\ lastWrite = [c \in Chats |-> NoRow]
    /\ last = NoLast

NextRace == WriteStart \/ S1Result \/ S1Commit \/ S2Result \/ S2Commit \/ WriteAck

SpecRace == InitRace /\ [][NextRace]_vars

\* C37: when both updates have been acknowledged, the row of the chat holds
\* the new threshold and the new mode, and neither update was dropped.
C37_BothConcurrentWritesKept ==
    (\A f \in SettingFields : writers[f].acked) =>
        /\ settingsRow[RaceChat] # NoRow
        /\ settingsRow[RaceChat].threshold = NewValue("threshold")
        /\ settingsRow[RaceChat].mode = NewValue("mode")
        /\ \A f \in SettingFields : ~writers[f].dropped

(***************************************************************************)
(* The persist step of handler tasks that run at the same time            *)
(***************************************************************************)
\* Each task handles one message that passed the sender and empty gates: a
\* plain message or /reset.  The awaits are the steps: save_message_db, then
\* (after the append, which runs without await) the rest of the handling up
\* to its first outbound message.
WorkerMid(w) == IF w = 1 THEN "m1" ELSE "m2"

PersistUnchanged ==
    UNCHANGED <<impl, intakeVars, thinkVars, fnVars, apiVars, writers, drawer,
                dbConfigured, settingsRow, conversation_active_until, now, appended,
                lastWrite, last>>

\* the handler is entered and awaits save_message_db
persist_start(w, c, isReset) ==
    /\ workers[w].pc = "idle"
    /\ workers' = [workers EXCEPT ![w] = [pc |-> "saving", chat |-> c, mid |-> WorkerMid(w),
                                          reset |-> isReset, sent |-> FALSE]]
    /\ UNCHANGED chat_logs
    /\ PersistUnchanged

\* save_message_db returned: chat_logs[chat_id].append(...), and, with no
\* await in between, the command block; /reset of main.py clears the deque
persist_append(w) ==
    /\ workers[w].pc = "saving"
    /\ LET c == workers[w].chat
           ring == DequeAppend(chat_logs[c], workers[w].mid, LogsMaxlen)
       IN  chat_logs' = [chat_logs EXCEPT ![c] =
                            IF workers[w].reset /\ ResetClearsLogs(impl) THEN <<>> ELSE ring]
    /\ workers' = [workers EXCEPT ![w].pc = "stored"]
    /\ PersistUnchanged

\* the first outbound message of the handling (acknowledgement or reply)
persist_send(w) ==
    /\ workers[w].pc = "stored"
    /\ workers' = [workers EXCEPT ![w].pc = "done", ![w].sent = TRUE]
    /\ UNCHANGED chat_logs
    /\ PersistUnchanged

PersistStart == \E w \in WorkerIds, c \in Chats, r \in BOOLEAN : persist_start(w, c, r)
PersistAppend == \E w \in WorkerIds : persist_append(w)
PersistSend == \E w \in WorkerIds : persist_send(w)

NextPersist == PersistStart \/ PersistAppend \/ PersistSend

SpecPersist == InitHandler /\ [][NextPersist]_vars

\* the messages handled for a chat, and those now in its ring
HandledFor(c) == { workers[w].mid : w \in { v \in WorkerIds : workers[v].chat = c } }

\* C38: no task sends before it appended; and when every task has finished,
\* the ring of each chat holds each message handled for the chat exactly
\* once, whatever the order in which the tasks ran.
C38_AppendsKeptInEveryInterleaving ==
    /\ \A w \in WorkerIds : workers[w].sent => workers[w].pc = "done"
    /\ (\A w \in WorkerIds : workers[w].pc = "done") =>
          \A c \in Chats :
              /\ SeqRange(chat_logs[c]) = HandledFor(c)
              /\ Len(chat_logs[c]) = Cardinality(HandledFor(c))

\* the same two messages, a plain one and /reset, in the same chat: one order
\* of the tasks leaves the plain message in the ring, the other leaves none
ResetRaceInputs ==
    /\ \A w \in WorkerIds : workers[w].pc = "done" /\ workers[w].chat = "c1"
    /\ ~workers[1].reset /\ workers[2].reset

ResetRaceKeepsMessage == ~(ResetRaceInputs /\ chat_logs["c1"] = <<"m1">>)
ResetRaceLosesMessage == ~(ResetRaceInputs /\ chat_logs["c1"] = <<>>)

(***************************************************************************)
(* handle_draw_request, step by step                                       *)
(***************************************************************************)
\* box: what the chat received for the current request, in order; n: requests
\* started; textFailed: a send_text_to_chat of this request raised;
\* reference: whether a reference image goes to generate_image.  Only
\* message_handler.py reaches the pipeline (WantsDraw).
MaxDraws == 2

DrawUnchanged ==
    UNCHANGED <<impl, intakeVars, thinkVars, fnVars, apiVars, writers, workers,
                handlerVars>>

\* await send_text_to_chat(chat_id, <kind>): delivered, or it raises
DrawText(d, kind, ok) ==
    IF ok THEN [d EXCEPT !.box = Append(@, kind)] ELSE [d EXCEPT !.textFailed = TRUE]

\* except Exception as e: await send_text_to_chat(chat_id, f"图片发送失败: ...")
DrawExcept(d, ok) == [DrawText(d, "image_send_failed", ok) EXCEPT !.pc = "ended"]

\* reference_image: the first uploaded image unless the text declines it
ReferenceChoice(hasImages, declines) ==
    IF ~hasImages THEN "none" ELSE IF declines THEN "ignored" ELSE "used"

\* await send_text_to_chat(chat_id, MSG_DRAWING), then the choice of the
\* reference image up to the await of generate_image
draw_start(c, hasImages, declines, ok) ==
    /\ impl = "modular"
    /\ drawer.pc \in {"idle", "ended"}
    /\ drawer.n < MaxDraws
    /\ drawer' = [DrawText([NoDraw EXCEPT !.n = drawer.n + 1, !.chat = c], "drawing", ok)
                     EXCEPT !.pc = IF ok THEN "generate" ELSE "ended",
                            !.reference = IF ok THEN ReferenceChoice(hasImages, declines)
                                          ELSE "none"]
    /\ DrawUnchanged

\* generate_image returns the bytes or an error string (or neither); the
\* error text is sent outside the try block
draw_generate(gotImage, ok) ==
    /\ drawer.pc = "generate"
    /\ drawer' = IF gotImage THEN [drawer EXCEPT !.pc = "upload"]
                 ELSE [DrawText(drawer, "draw_error", ok) EXCEPT !.pc = "ended"]
    /\ DrawUnchanged

\* upload_image: the image key, an error string, or the token fetch raises
draw_upload(o, ok1, ok2) ==
    /\ drawer.pc = "upload"
    /\ drawer' = CASE o = "key" -> [drawer EXCEPT !.pc = "send_image"]
                   [] o = "error" ->
                        IF ok1 THEN [DrawText(drawer, "upload_error", TRUE) EXCEPT !.pc = "ended"]
                        ELSE DrawExcept(DrawText(drawer, "upload_error", FALSE), ok2)
                   [] OTHER -> DrawExcept(drawer, ok2)
    /\ DrawUnchanged

\* send_image_to_chat: the image is delivered, the platform answers with a
\* code other than 0 (logged, return), or the token fetch or the POST raises
draw_send_image(o, ok) ==
    /\ drawer.pc = "send_image"
    /\ drawer' = CASE o = "ok" -> [drawer EXCEPT !.box = Append(@, "image"), !.pc = "caption"]
                   [] o = "code" -> [drawer EXCEPT !.pc = "ended"]
                   [] OTHER -> DrawExcept(drawer, ok)
    /\ DrawUnchanged

\* send_image_to_chat: await send_text_to_chat(chat_id, caption)
draw_caption(ok1, ok2) ==
    /\ drawer.pc = "caption"
    /\ drawer' = IF ok1 THEN [DrawText(drawer, "caption", TRUE) EXCEPT !.pc = "ended"]
                 ELSE DrawExcept(DrawText(drawer, "caption", FALSE), ok2)
    /\ DrawUnchanged

DrawStart == \E c \in Chats, hasImages, declines, ok \in BOOLEAN :
                 draw_start(c, hasImages, declines, ok)
DrawGenerate == \E g, ok \in BOOLEAN : draw_generate(g, ok)
DrawUpload == \E o \in {"key", "error", "raise"}, ok1, ok2 \in BOOLEAN : draw_upload(o, ok1, ok2)
DrawSendImage == \E o \in {"ok", "code", "raise"}, ok \in BOOLEAN : draw_send_image(o, ok)
DrawCaption == \E ok1, ok2 \in BOOLEAN : draw_caption(ok1, ok2)

InitDraw == InitFn /\ FnIdle

NextDraw == DrawStart \/ DrawGenerate \/ DrawUpload \/ DrawSendImage \/ DrawCaption

\* every await of the pipeline returns or raises in the end (each has a timeout)
SpecDraw == InitDraw /\ [][NextDraw]_vars /\ WF_vars(NextDraw)

TerminalKinds == {"image", "draw_error", "upload_error", "image_send_failed"}

TerminalCount(box) == Cardinality({ i \in 1..Len(box) : box[i] \in TerminalKinds })

\* the image followed by the caption, or one error text, after the first message
OneOutcome(box) ==
    /\ TerminalCount(box) = 1
    /\ \A i \in 1..Len(box) :
          box[i] = "image" => i < Len(box) /\ box[i + 1] = "caption"

\* C40: a request whose 'drawing now' message was sent comes to an end, and
\* when it has ended, with every text message it tried to send delivered, the
\* chat has received exactly one outcome: the image and its caption, or one
\* error text.
C40_DrawEndsWithOneOutcome ==
    /\ (drawer.pc \in {"generate", "upload", "send_image", "caption"}) ~> (drawer.pc = "ended")
    /\ []((drawer.pc = "ended" /\ drawer.box # <<>> /\ ~drawer.textFailed)
            => OneOutcome(drawer.box))

====
